---- MODULE Spec2Model ----
(***************************************************************************)
(* A model of the vSphere backend of libretto                              *)
(* (virtualmachine/vsphere/util.go): inventory resolution, device          *)
(* reconciliation, the question responder and the guest shutdown poll.     *)
(*                                                                         *)
(* Strings that the code takes apart (paths, entity names) are sequences   *)
(* of one-character strings.  Every operation has its own specification:   *)
(* Init draws the operation's inputs and the backend's contents from       *)
(* bounded sets, the actions run the operation.                            *)
(***************************************************************************)
EXTENDS Integers, Sequences, FiniteSets, TLC

VARIABLES
    vm,       \* the VM handle (*VM): the fields the operation reads
    backend,  \* what the vSphere backend holds and what was submitted to it
    pc,       \* position of the running operation
    local,    \* the running operation's local variables
    ret       \* what the operation returned

vars == <<vm, backend, pc, local, ret>>

----------------------------------------------------------------------------
(* Bounds *)

MaxObjs == 4        \* inventory objects below the root folder
MaxSegs == 3        \* segments of a searched path
MaxDevices == 2     \* devices of a template
MaxDisks == 2       \* entries of vm.FixedDisks
MaxNetworks == 2    \* entries of vm.Networks
MaxHostNets == 2    \* networks of a destination or host
MaxRules == 2       \* entries of vm.QuestionResponses
MaxFindObjs == 2    \* inventory objects below the root folder in SpecFindVM
MaxFindSegs == 2    \* segments of a path looked up in SpecFindVM

----------------------------------------------------------------------------
(* Generic helpers *)

Range(s) == {s[i] : i \in 1..Len(s)}

SeqsUpTo(S, n) == UNION {[1..k -> S] : k \in 0..n}

\* position of the first occurrence of the character c in s, 0 if none
IndexOf(s, c) ==
    IF \E i \in 1..Len(s) : s[i] = c
    THEN CHOOSE i \in 1..Len(s) : s[i] = c /\ \A j \in 1..(i-1) : s[j] # c
    ELSE 0

\* position of the first occurrence of the two characters \/ in s, 0 if none
IndexOfEscaped(s) ==
    IF \E i \in 1..(Len(s)-1) : s[i] = "\\" /\ s[i+1] = "/"
    THEN CHOOSE i \in 1..(Len(s)-1) :
            /\ s[i] = "\\" /\ s[i+1] = "/"
            /\ \A j \in 1..(i-1) : ~(s[j] = "\\" /\ s[j+1] = "/")
    ELSE 0

\* a split that drops the empty segments
RECURSIVE StringsSplit_DropsEmpty(_)
StringsSplit_DropsEmpty(s) ==
    LET i == IndexOf(s, "/") IN
    IF i = 0 THEN (IF s = <<>> THEN <<>> ELSE <<s>>)
    ELSE (IF i = 1 THEN <<>> ELSE <<SubSeq(s, 1, i-1)>>)
            \o StringsSplit_DropsEmpty(SubSeq(s, i+1, Len(s)))

\* strings.Split(s, "/"): never empty, Split("") is one empty segment
RECURSIVE StringsSplit(_)
StringsSplit(s) ==
    LET i == IndexOf(s, "/") IN
    IF i = 0 THEN <<s>>
    ELSE <<SubSeq(s, 1, i-1)>> \o StringsSplit(SubSeq(s, i+1, Len(s)))

----------------------------------------------------------------------------
(* splitPathToList *)

\* a split that takes all that follows the first \/ as part of one name
splitPathToList_FirstEscapeOnly(path) ==
    LET e        == IndexOfEscaped(path)
        first    == IF e = 0 THEN path ELSE SubSeq(path, 1, e-1)
        pathList == StringsSplit(first)
    IN  IF e = 0 THEN pathList
        ELSE [pathList EXCEPT ![Len(pathList)] =
                 @ \o <<"/">> \o SubSeq(path, e+2, Len(path))]

RECURSIVE splitPathToList(_)
splitPathToList(path) ==
    LET e        == IndexOfEscaped(path)
        first    == IF e = 0 THEN path ELSE SubSeq(path, 1, e-1)
        pathList == StringsSplit(first)
    IN  IF e = 0 THEN pathList
        ELSE LET morePathList == splitPathToList(SubSeq(path, e+2, Len(path)))
                 lPathList    == Len(pathList)
             IN  [pathList EXCEPT ![lPathList] = @ \o <<"/">> \o morePathList[1]]
                    \o Tail(morePathList)

----------------------------------------------------------------------------
(* url.QueryUnescape, on the characters the model uses: "+" becomes a      *)
(* space, "%" followed by two hexadecimal digits becomes the byte they     *)
(* spell, any other "%" is an error.                                       *)

HexDigits == {"0", "1", "2", "3", "4", "5", "6", "7", "8", "9", "F"}

UnescapeError == <<"!invalid URL escape">>

\* the byte spelled by two hexadecimal digits
HexByte(h, l) ==
    CASE h = "6" /\ l = "1" -> "a"
      [] h = "6" /\ l = "2" -> "b"
      [] h = "7" /\ l = "6" -> "v"
      [] h = "2" /\ l = "F" -> "/"
      [] OTHER -> "0x??"     \* any other byte: no name of the model holds it

RECURSIVE QueryUnescape(_)
QueryUnescape(s) ==
    IF s = <<>> THEN <<>>
    ELSE IF Head(s) = "%"
         THEN IF Len(s) >= 3 /\ s[2] \in HexDigits /\ s[3] \in HexDigits
              THEN LET rest == QueryUnescape(SubSeq(s, 4, Len(s)))
                   IN  IF rest = UnescapeError THEN UnescapeError
                       ELSE <<HexByte(s[2], s[3])>> \o rest
              ELSE UnescapeError
         ELSE LET rest == QueryUnescape(Tail(s))
              IN  IF rest = UnescapeError THEN UnescapeError
                  ELSE <<IF Head(s) = "+" THEN " " ELSE Head(s)>> \o rest

----------------------------------------------------------------------------
(* The inventory tree.  Object 0 is the root folder handed to the search   *)
(* (the datacenter's VmFolder or HostFolder); objects 1..n are its         *)
(* descendants.  inv.parent gives the tree, a folder's childEntity lists   *)
(* its children in ascending order of reference.  inv.status is what a     *)
(* property retrieval on the object does: "ok", "deleted" (the fault       *)
(* ManagedObjectNotFound) or "fault" (any other error).                    *)

Objs(inv) == DOMAIN inv.parent

\* the childEntity property of folder f
RECURSIVE ChildrenFrom(_, _, _)
ChildrenFrom(inv, f, i) ==
    IF i > Cardinality(Objs(inv)) THEN <<>>
    ELSE (IF inv.parent[i] = f THEN <<i>> ELSE <<>>) \o ChildrenFrom(inv, f, i+1)

ChildEntity(inv, f) == ChildrenFrom(inv, f, 1)

isObjectDeleted_Never(status) == FALSE

\* isObjectDeleted: the error is the fault ManagedObjectNotFound
isObjectDeleted(status) == status = "deleted"

\* NewErrorObjectNotFound
ErrorObjectNotFound == [kind |-> "err", err |-> "NotFound"]

RetrievalError(status) ==
    [kind |-> "err", err |-> IF status = "deleted" THEN "ManagedObjectNotFound" ELSE "fault"]

\* the loop over folderMo.ChildEntity of searchTree, from the k-th child on.
\* Go's break inside the switch leaves the switch, not the loop: after a
\* folder matched, the remaining children are still examined with the
\* advanced iPathList.  iPathList counts from 1 here.
RECURSIVE searchTreeChildren(_, _, _, _, _, _)
searchTreeChildren(inv, pathList, children, k, iPathList, mor) ==
    IF k > Len(children)
    THEN [kind |-> "next", iPathList |-> iPathList, mor |-> mor]
    ELSE
      LET child     == children[k]
          lPathList == Len(pathList)
          skip      == searchTreeChildren(inv, pathList, children, k+1, iPathList, mor)
          childName == QueryUnescape(inv.name[child])
      IN
      IF inv.type[child] = "Folder"
      THEN IF iPathList = lPathList THEN skip
           ELSE IF inv.status[child] # "ok"
                THEN IF isObjectDeleted(inv.status[child]) THEN skip
                     ELSE RetrievalError(inv.status[child])
           ELSE IF childName = UnescapeError THEN [kind |-> "err", err |-> "unescape"]
           ELSE IF childName = pathList[iPathList]
                THEN searchTreeChildren(inv, pathList, children, k+1, iPathList+1, child)
                ELSE skip
      ELSE IF inv.type[child] = "VirtualMachine"
      THEN IF iPathList # lPathList THEN skip
           ELSE IF inv.status[child] # "ok"
                THEN IF isObjectDeleted(inv.status[child]) THEN skip
                     ELSE RetrievalError(inv.status[child])
           ELSE IF childName = UnescapeError THEN [kind |-> "err", err |-> "unescape"]
           ELSE IF childName = pathList[iPathList]
                THEN [kind |-> "vm", ref |-> child]
                ELSE skip
      ELSE skip

\* the outer loop of searchTree: one iteration per folder mor
RECURSIVE searchTreeFrom(_, _, _, _)
searchTreeFrom(inv, pathList, mor, iPathList) ==
    IF inv.status[mor] # "ok" THEN RetrievalError(inv.status[mor])
    ELSE LET r == searchTreeChildren(inv, pathList, ChildEntity(inv, mor), 1,
                                     iPathList, -1)
         IN  IF r.kind # "next" THEN r
             ELSE IF r.mor = -1 THEN ErrorObjectNotFound
             ELSE searchTreeFrom(inv, pathList, r.mor, r.iPathList)

searchTree(inv, mor, name) == searchTreeFrom(inv, splitPathToList(name), mor, 1)

----------------------------------------------------------------------------
(* Inventories and paths the searches are run on *)

\* entity names as the backend stores them: "%62" is the stored form of "b"
RawNames == {<<"a">>, <<"%", "6", "2">>, <<"v">>}

\* decoded names a caller asks for
SegNames == {<<"a">>, <<"b">>, <<"v">>}

\* strings.Replace(name, "/", "\\/", -1)
RECURSIVE EscapeName(_)
EscapeName(s) ==
    IF s = <<>> THEN <<>>
    ELSE (IF Head(s) = "/" THEN <<"\\", "/">> ELSE <<Head(s)>>) \o EscapeName(Tail(s))

\* the path getVmsInFolder reports for an entity below folders segs[1..n-1]
RECURSIVE PathOfSegments(_)
PathOfSegments(segs) ==
    IF Len(segs) = 1 THEN EscapeName(segs[1])
    ELSE EscapeName(Head(segs)) \o <<"/">> \o PathOfSegments(Tail(segs))

SearchPaths == {PathOfSegments(segs) : segs \in SeqsUpTo(SegNames, MaxSegs) \ {<<>>}}

\* trees of n objects whose parents are folders of smaller reference and
\* whose siblings have distinct names; every retrieval succeeds
Inventories(n, types, names) ==
    {inv \in [parent : [1..n -> 0..(n-1)],
              type   : [1..n -> types],
              name   : [1..n -> names],
              status : {[o \in 0..n |-> "ok"]}] :
        /\ \A o \in 1..n : /\ inv.parent[o] < o
                           /\ inv.parent[o] # 0 => inv.type[inv.parent[o]] = "Folder"
        /\ \A o, q \in 1..n :
              (o # q /\ inv.parent[o] = inv.parent[q]) => inv.name[o] # inv.name[q]}

NoReturn == [kind |-> "none"]

----------------------------------------------------------------------------
(* Specification SpecTree: searchTree on the datacenter's VM folder *)

InitTree ==
    /\ vm \in [Name : SearchPaths]
    /\ backend \in [inv : Inventories(MaxObjs, {"Folder", "VirtualMachine"}, RawNames)]
    /\ pc = "start"
    /\ local = <<>>
    /\ ret = NoReturn

SearchTreeCall ==
    /\ pc = "start"
    /\ ret' = searchTree(backend.inv, 0, vm.Name)
    /\ pc' = "done"
    /\ UNCHANGED <<vm, backend, local>>

NextTree == SearchTreeCall

SpecTree == InitTree /\ [][NextTree]_vars

\* the folders reached from the root by descending one level per segment
\* through child folders named pathList[1..k]
RECURSIVE FolderChain(_, _, _)
FolderChain(inv, pathList, k) ==
    IF k = 0 THEN {0}
    ELSE {f \in Objs(inv) :
            /\ inv.type[f] = "Folder"
            /\ inv.parent[f] \in FolderChain(inv, pathList, k-1)
            /\ QueryUnescape(inv.name[f]) = pathList[k]}

\* the VMs the path names: named by the last segment, in a folder of the chain
VMsAtPath(inv, pathList) ==
    {o \in Objs(inv) :
        /\ inv.type[o] = "VirtualMachine"
        /\ QueryUnescape(inv.name[o]) = pathList[Len(pathList)]
        /\ inv.parent[o] \in FolderChain(inv, pathList, Len(pathList) - 1)}

\* C2: a VM returned by searchTree is named by the last segment and is a
\* direct child of the folder chain s1..s(n-1); no VM of another folder is
\* ever returned.
C2_ReturnedVMIsAtPath ==
    (pc = "done" /\ ret.kind = "vm")
        => ret.ref \in VMsAtPath(backend.inv, splitPathToList(vm.Name))

\* C3: when a VM named sn exists below the folder chain s1..s(n-1) and no
\* retrieval fails, searchTree returns a VM; NotFound is returned only when
\* no such VM exists.
C3_ExistingVMIsFound ==
    (pc = "done" /\ \A o \in DOMAIN backend.inv.status : backend.inv.status[o] = "ok")
        => /\ VMsAtPath(backend.inv, splitPathToList(vm.Name)) # {} => ret.kind = "vm"
           /\ ret = ErrorObjectNotFound
                => VMsAtPath(backend.inv, splitPathToList(vm.Name)) = {}

----------------------------------------------------------------------------
(* findMob: the search of the host folder for a compute resource *)

errorEmpty == [kind |-> "err", err |-> "Folder is empty"]

\* the loop over folder.ChildEntity of findMob, from the k-th child on; the
\* reference a recursive call found is dropped (only its error is looked at)
RECURSIVE findMob(_, _, _), findMobChildren(_, _, _, _)
findMobChildren(inv, children, k, name) ==
    IF k > Len(children) THEN ErrorObjectNotFound
    ELSE
      LET child == children[k]
          rest  == findMobChildren(inv, children, k+1, name)
      IN
      IF inv.type[child] = "Folder"
      THEN LET found == findMob(inv, child, name)
           IN  IF found = errorEmpty THEN rest
               ELSE IF found.kind = "err" THEN found
               ELSE rest
      ELSE IF inv.type[child] \in {"ComputeResource", "ClusterComputeResource"}
      THEN IF inv.status[child] # "ok" THEN RetrievalError(inv.status[child])
           ELSE IF inv.name[child] = name THEN [kind |-> "ref", ref |-> child]
           ELSE rest
      ELSE rest

findMob(inv, mor, name) ==
    IF inv.status[mor] # "ok" THEN RetrievalError(inv.status[mor])
    ELSE IF Len(ChildEntity(inv, mor)) = 0 THEN errorEmpty
    ELSE findMobChildren(inv, ChildEntity(inv, mor), 1, name)

----------------------------------------------------------------------------
(* Specification SpecMob: findMob on the datacenter's host folder *)

InitMob ==
    /\ vm \in [Destination : [DestinationName : RawNames]]
    /\ backend \in [inv : Inventories(MaxObjs,
                             {"Folder", "ComputeResource", "ClusterComputeResource"},
                             RawNames)]
    /\ pc = "start"
    /\ local = <<>>
    /\ ret = NoReturn

FindMobCall ==
    /\ pc = "start"
    /\ ret' = findMob(backend.inv, 0, vm.Destination.DestinationName)
    /\ pc' = "done"
    /\ UNCHANGED <<vm, backend, local>>

NextMob == FindMobCall

SpecMob == InitMob /\ [][NextMob]_vars

\* the compute resources of the tree that carry the name
MobsNamed(inv, name) ==
    {o \in Objs(inv) :
        /\ inv.type[o] \in {"ComputeResource", "ClusterComputeResource"}
        /\ inv.name[o] = name}

\* C4: findMob returns a compute resource named name whenever one exists
\* anywhere below the root, at any depth; empty sub-folders and sub-folders
\* without the name do not stop the search.
C4_FindMobFindsAtAnyDepth ==
    (pc = "done" /\ MobsNamed(backend.inv, vm.Destination.DestinationName) # {})
        => /\ ret.kind = "ref"
           /\ ret.ref \in MobsNamed(backend.inv, vm.Destination.DestinationName)

----------------------------------------------------------------------------
(* resizeAndDeleteVols: reconciling the template's disks with FixedDisks *)

\* a nil pointer or nil interface value
Nil == [kind |-> "nil"]

\* a nil *int32 (Network.DeviceKey)
NilKey == 0 - 1

\* a nil *mo.VirtualMachine or *types.ManagedObjectReference
NilRef == 0 - 1

FileNames == {"[ds] t/t.vmdk", "[ds] t/t_1.vmdk"}

\* KB in one unit of Disk.Size
KBPerSizeUnit == 1024 * 1024

\* the devices of a template: disks with a file backing or a raw device
\* backing, and one network card
DiskDevices ==
    [type : {"VirtualDisk"}, Key : {2000},
     Backing : [kind : {"file"}, FileName : FileNames] \cup {[kind |-> "device"]},
     CapacityInKB : {KBPerSizeUnit, 2 * KBPerSizeUnit}]

TemplateDevices ==
    DiskDevices \cup
        {[type |-> "VirtualVmxnet3", Key |-> 4000, Backing |-> Nil, CapacityInKB |-> 0]}

RequestedDisks == [Size : 1..3, DiskFile : FileNames \cup {""}]

\* findByVirtualDeviceFileName: the first requested disk with that file name
findByVirtualDeviceFileName(disks, name) ==
    IF \E i \in 1..Len(disks) : disks[i].DiskFile = name
    THEN disks[CHOOSE i \in 1..Len(disks) :
                  /\ disks[i].DiskFile = name
                  /\ \A j \in 1..(i-1) : disks[j].DiskFile # name]
    ELSE Nil

\* int64(disk.Size * 1024 * 1024)
capacityInKB(disk) == disk.Size * 1024 * 1024

ShrinkError == [kind |-> "err", err |-> "Shrinking Virtual Disks is not supported"]

\* a mutant of diskChange that grows a disk whatever the two sizes are
diskChange_NoShrinkCheck(editdisk, disks) ==
    LET disk == findByVirtualDeviceFileName(disks, editdisk.Backing.FileName)
    IN  IF disk = Nil
        THEN [kind |-> "spec", spec |-> [Operation |-> "remove", Device |-> editdisk]]
        ELSE IF editdisk.CapacityInKB # capacityInKB(disk)
        THEN [kind |-> "spec",
              spec |-> [Operation |-> "edit",
                        Device |-> [editdisk EXCEPT !.CapacityInKB = capacityInKB(disk)]]]
        ELSE [kind |-> "spec", spec |-> Nil]

\* the body of the device loop for one virtual disk: the value of dvconfig
\* that is appended, or the error (dvconfig stays nil when the sizes are equal)
diskChange(editdisk, disks) ==
    LET disk == findByVirtualDeviceFileName(disks, editdisk.Backing.FileName)
    IN  IF disk = Nil
        THEN [kind |-> "spec", spec |-> [Operation |-> "remove", Device |-> editdisk]]
        ELSE IF editdisk.CapacityInKB > capacityInKB(disk) THEN ShrinkError
        ELSE IF editdisk.CapacityInKB < capacityInKB(disk)
        THEN [kind |-> "spec",
              spec |-> [Operation |-> "edit",
                        Device |-> [editdisk EXCEPT !.CapacityInKB = capacityInKB(disk)]]]
        ELSE [kind |-> "spec", spec |-> Nil]

\* resizeAndDeleteVols from the k-th device on, deviceSpecs built so far
RECURSIVE resizeAndDeleteVolsFrom(_, _, _, _)
resizeAndDeleteVolsFrom(devices, disks, k, deviceSpecs) ==
    IF k > Len(devices) THEN [kind |-> "ok", specs |-> deviceSpecs]
    ELSE IF devices[k].type # "VirtualDisk"
    THEN resizeAndDeleteVolsFrom(devices, disks, k+1, deviceSpecs)
    ELSE IF devices[k].Backing.kind # "file"
    THEN [kind |-> "panic"]     \* the type assertion on the backing fails
    ELSE LET c == diskChange(devices[k], disks)
         IN  IF c.kind = "err" THEN c
             ELSE resizeAndDeleteVolsFrom(devices, disks, k+1, Append(deviceSpecs, c.spec))

resizeAndDeleteVols(devices, disks) == resizeAndDeleteVolsFrom(devices, disks, 1, <<>>)

----------------------------------------------------------------------------
(* Specification SpecDisks: resizeAndDeleteVols as cloneFromTemplate calls it *)

\* no two disks of a template share a backing file
DistinctBackings(devices) ==
    \A i, j \in 1..Len(devices) :
        (i # j /\ devices[i].type = "VirtualDisk" /\ devices[j].type = "VirtualDisk"
            /\ devices[i].Backing.kind = "file" /\ devices[j].Backing.kind = "file")
        => devices[i].Backing.FileName # devices[j].Backing.FileName

InitDisks ==
    /\ vm \in [FixedDisks : SeqsUpTo(RequestedDisks, MaxDisks)]
    /\ backend \in [devices : {d \in SeqsUpTo(TemplateDevices, MaxDevices) :
                                    DistinctBackings(d)}]
    /\ pc = "start"
    /\ local = <<>>
    /\ ret = NoReturn

\* cloneFromTemplate calls resizeAndDeleteVols only for a non-empty FixedDisks
ResizeAndDeleteVolsCall ==
    /\ pc = "start"
    /\ Len(vm.FixedDisks) # 0
    /\ ret' = resizeAndDeleteVols(backend.devices, vm.FixedDisks)
    /\ pc' = "done"
    /\ UNCHANGED <<vm, backend, local>>

NextDisks == ResizeAndDeleteVolsCall

SpecDisks == InitDisks /\ [][NextDisks]_vars

\* the template's virtual disks
TemplateDisks == {backend.devices[i] : i \in {j \in 1..Len(backend.devices) :
                                              backend.devices[j].type = "VirtualDisk"}}

AllFileBacked == \A d \in TemplateDisks : d.Backing.kind = "file"

Requested(d) == findByVirtualDeviceFileName(vm.FixedDisks, d.Backing.FileName)

\* C5: a template disk found in the requested list with a size equal to its
\* capacity contributes no entry; the returned list holds one entry per disk
\* to remove or grow and nothing else.
C5_EqualSizeNoEntry ==
    (pc = "done" /\ ret.kind = "ok")
        => /\ \A i \in 1..Len(ret.specs) : ret.specs[i] # Nil
           /\ Len(ret.specs) =
                Cardinality({d \in TemplateDisks :
                    \/ Requested(d) = Nil
                    \/ capacityInKB(Requested(d)) > d.CapacityInKB})

\* C6: on success every unmatched template disk has a remove entry and every
\* matched disk with a larger requested size has an edit entry carrying the
\* new capacity; a matched disk with a smaller requested size makes the call
\* fail with the shrinking error and no list, and only that does.
C6_RemoveGrowOrFail ==
    (pc = "done" /\ AllFileBacked)
        => /\ ret.kind = "ok" =>
                \A d \in TemplateDisks :
                    /\ Requested(d) = Nil =>
                         \E i \in 1..Len(ret.specs) :
                            ret.specs[i] = [Operation |-> "remove", Device |-> d]
                    /\ (Requested(d) # Nil /\ Requested(d).Size * KBPerSizeUnit > d.CapacityInKB) =>
                         \E i \in 1..Len(ret.specs) :
                            ret.specs[i] = [Operation |-> "edit",
                                            Device |-> [d EXCEPT !.CapacityInKB =
                                                          Requested(d).Size * KBPerSizeUnit]]
           /\ (\E d \in TemplateDisks :
                  Requested(d) # Nil /\ Requested(d).Size * KBPerSizeUnit < d.CapacityInKB)
                <=> ret = ShrinkError

\* a call that removed one disk and grew another
C6_Witness ==
    /\ pc = "done" /\ ret.kind = "ok" /\ AllFileBacked
    /\ \E i, j \in 1..Len(ret.specs) :
          /\ ret.specs[i] # Nil /\ ret.specs[j] # Nil
          /\ ret.specs[i].Operation = "remove" /\ ret.specs[j].Operation = "edit"

----------------------------------------------------------------------------
(* Networks: createNetworkMapping, getEthernetBacking, reconfigureNetworks *)

\* network references of the backend with the name a retrieval yields for
\* them; "fault" marks a reference whose property retrieval fails
NetworkMors ==
    {[Type |-> "Network", Value |-> "network-1", name |-> "net1", fault |-> FALSE],
     [Type |-> "DistributedVirtualPortgroup", Value |-> "dvportgroup-2", name |-> "net2",
      fault |-> FALSE],
     [Type |-> "Network", Value |-> "network-3", name |-> "", fault |-> FALSE],
     [Type |-> "Network", Value |-> "network-4", name |-> "net1", fault |-> TRUE],
     [Type |-> "OpaqueNetwork", Value |-> "network-o5", name |-> "net2", fault |-> FALSE]}

\* the zero ManagedObjectReference, what a lookup of an absent map key yields
ZeroMor == [Type |-> "", Value |-> "", name |-> "", fault |-> FALSE]

NetworkNames == {"net1", "net2", "net3"}

Fault(msg) == [kind |-> "err", err |-> msg]

getNetworkName(network) ==
    IF network.Type \in {"Network", "DistributedVirtualPortgroup"}
    THEN IF network.fault THEN Fault("retrieval failed")
         ELSE [kind |-> "ok", name |-> network.name]
    ELSE Fault("Could not retrieve the network name")

\* nwMap after the first k references: a later reference replaces an earlier
\* one of the same name
RECURSIVE nwMapOf(_, _)
nwMapOf(networkMors, k) ==
    IF k = 0 THEN [kind |-> "ok", map |-> <<>>]
    ELSE LET before == nwMapOf(networkMors, k-1)
             n      == getNetworkName(networkMors[k])
         IN  IF before.kind = "err" THEN before
             ELSE IF n.kind = "err" THEN n
             ELSE IF n.name = "" THEN Fault("Network name empty")
             ELSE [kind |-> "ok",
                   map  |-> [x \in (DOMAIN before.map) \cup {n.name} |->
                               IF x = n.name THEN networkMors[k] ELSE before.map[x]]]

\* nwMap[name], the zero reference for an absent key (also of a nil map)
Lookup(nwMap, name) == IF name \in DOMAIN nwMap THEN nwMap[name] ELSE ZeroMor

\* createNetworkMapping: (mappings, nwMap, err)
createNetworkMapping(networks, networkMors) ==
    LET m == nwMapOf(networkMors, Len(networkMors))
    IN  IF m.kind = "err"
        THEN [mappings |-> <<>>, nwMap |-> <<>>, err |-> m]
        ELSE IF \E i \in 1..Len(networks) : networks[i].Name \notin DOMAIN m.map
        THEN [mappings |-> <<>>, nwMap |-> m.map, err |-> ErrorObjectNotFound]
        ELSE [mappings |-> [i \in 1..Len(networks) |->
                              [Name |-> networks[i].Name, Network |-> m.map[networks[i].Name]]],
              nwMap |-> m.map, err |-> Nil]

\* getEthernetBacking; dvsFault: fetching a portgroup's backing info fails
getEthernetBacking(nwMor, name, dvsFault) ==
    CASE nwMor.Type = "Network" ->
            [kind |-> "ok",
             backing |-> [kind |-> "VirtualEthernetCardNetworkBackingInfo",
                          DeviceName |-> name, Network |-> nwMor.Value]]
      [] nwMor.Type = "DistributedVirtualPortgroup" ->
            IF dvsFault THEN Fault("error fetching ethernet card backing info")
            ELSE [kind |-> "ok",
                  backing |-> [kind |-> "VirtualEthernetCardDistributedVirtualPortBackingInfo",
                               DeviceName |-> "", Network |-> nwMor.Value]]
      [] OTHER -> [kind |-> "ok", backing |-> Nil]

\* addNetworkDeviceSpec: a new vmxnet3 card with that backing
addNetworkDeviceSpec(nwMor, name, dvsFault) ==
    LET b == getEthernetBacking(nwMor, name, dvsFault)
    IN  IF b.kind = "err" THEN b
        ELSE [kind |-> "ok",
              spec |-> [Operation |-> "add",
                        Device |-> [type |-> "VirtualVmxnet3", Key |-> -1,
                                    Backing |-> b.backing]]]

EthernetCardTypes == {"VirtualE1000", "VirtualE1000e", "VirtualVmxnet3"}

\* a mutant of MappingIndex that takes the first mapping whatever its name
MappingIndex_First(networkMapping, name) ==
    IF Len(networkMapping) > 0 THEN 1 ELSE 0

\* the first mapping of that name, 0 if none
MappingIndex(networkMapping, name) ==
    IF \E i \in 1..Len(networkMapping) : networkMapping[i].Name = name
    THEN CHOOSE i \in 1..Len(networkMapping) :
            /\ networkMapping[i].Name = name
            /\ \A j \in 1..(i-1) : networkMapping[j].Name # name
    ELSE 0

\* the loop over the template's devices from the k-th on; idx counts the
\* cards already paired with an entry of vm.Networks
RECURSIVE reconfigureDevices(_, _, _, _, _, _, _)
reconfigureDevices(networks, networkMapping, devices, dvsFault, k, idx, deviceSpecs) ==
    IF k > Len(devices) THEN [kind |-> "ok", idx |-> idx, specs |-> deviceSpecs]
    ELSE IF devices[k].type \notin EthernetCardTypes
    THEN reconfigureDevices(networks, networkMapping, devices, dvsFault, k+1, idx, deviceSpecs)
    ELSE IF idx >= Len(networks)
    THEN reconfigureDevices(networks, networkMapping, devices, dvsFault, k+1, idx,
            Append(deviceSpecs, [Operation |-> "remove", Device |-> devices[k]]))
    ELSE LET m == MappingIndex(networkMapping, networks[idx+1].Name)
             b == getEthernetBacking(networkMapping[m].Network, networkMapping[m].Name, dvsFault)
         IN  IF m = 0
             THEN reconfigureDevices(networks, networkMapping, devices, dvsFault, k+1, idx+1,
                                     deviceSpecs)
             ELSE IF b.kind = "err" THEN b
             ELSE reconfigureDevices(networks, networkMapping, devices, dvsFault, k+1, idx+1,
                     Append(deviceSpecs,
                            [Operation |-> "edit",
                             Device |-> [devices[k] EXCEPT !.Backing = b.backing]]))

\* the loop over vm.Networks[idx:] that adds the cards still missing
RECURSIVE addExtraNetworks(_, _, _, _, _)
addExtraNetworks(networks, networkMapping, dvsFault, i, deviceSpecs) ==
    IF i > Len(networks) THEN [kind |-> "ok", specs |-> deviceSpecs]
    ELSE LET m    == MappingIndex(networkMapping, networks[i].Name)
             spec == addNetworkDeviceSpec(networkMapping[m].Network, networkMapping[m].Name,
                                          dvsFault)
         IN  IF m = 0 THEN addExtraNetworks(networks, networkMapping, dvsFault, i+1, deviceSpecs)
             ELSE IF spec.kind = "err" THEN spec
             ELSE addExtraNetworks(networks, networkMapping, dvsFault, i+1,
                                   Append(deviceSpecs, spec.spec))

\* reconfigureNetworks; location is what getVMLocation returned, devList what
\* vmObj.Device returned
reconfigureNetworks(networks, location, devList, dvsFault) ==
    IF location.kind = "err" THEN location
    ELSE LET cnm == createNetworkMapping(networks, location.Networks)
         IN  IF cnm.err # Nil THEN cnm.err
             ELSE IF devList.kind = "err" THEN devList
             ELSE LET r == reconfigureDevices(networks, cnm.mappings, devList.devices,
                                              dvsFault, 1, 0, <<>>)
                  IN  IF r.kind = "err" THEN r
                      ELSE addExtraNetworks(networks, cnm.mappings, dvsFault, r.idx + 1, r.specs)

----------------------------------------------------------------------------
(* networkDeviceChangeSpec and removeNetworkDeviceSpec *)

\* VirtualDeviceList.SelectByBackingInfo: the devices whose backing is of the
\* type of the given one and names the same network; a nil backing has no
\* type and selects nothing
SelectByBackingInfo(devices, backing) ==
    SelectSeq(devices,
              LAMBDA d : /\ d.Backing # Nil
                         /\ backing # Nil
                         /\ d.Backing.kind = backing.kind
                         /\ IF backing.kind = "VirtualEthernetCardNetworkBackingInfo"
                            THEN d.Backing.DeviceName = backing.DeviceName
                            ELSE d.Backing.Network = backing.Network)

removeNetworkDeviceSpec(nwMor, name, deviceKey, devices, dvsFault) ==
    LET b         == getEthernetBacking(nwMor, name, dvsFault)
        nwDevices == SelectByBackingInfo(devices, b.backing)
        byKey     == SelectSeq(nwDevices, LAMBDA d : d.Key = deviceKey)
    IN  IF b.kind = "err" THEN b
        ELSE IF Len(nwDevices) = 0 THEN ErrorObjectNotFound
        ELSE IF Len(byKey) = 0 THEN Fault("device with key not found")
        ELSE [kind |-> "ok", spec |-> [Operation |-> "remove", Device |-> byKey[1]]]

\* the loop over vm.Networks of networkDeviceChangeSpec from the i-th entry
\* on.  The error of createNetworkMapping is never looked at: each case
\* assigns err anew, and nwMap is read with the names as they are.
RECURSIVE networkDeviceChanges(_, _, _, _, _, _, _)
networkDeviceChanges(networks, nwMap, devices, dvsFault, i, addDeviceSpecs, removeDeviceSpecs) ==
    IF i > Len(networks)
    THEN [kind |-> "ok", specs |-> addDeviceSpecs \o removeDeviceSpecs]
    ELSE
      LET nw == networks[i] IN
      IF nw.Operation \in {"", "add"}
      THEN LET spec == addNetworkDeviceSpec(Lookup(nwMap, nw.Name), nw.Name, dvsFault)
           IN  IF spec.kind = "err" THEN Fault("error creating spec for network")
               ELSE networkDeviceChanges(networks, nwMap, devices, dvsFault, i+1,
                                         Append(addDeviceSpecs, spec.spec), removeDeviceSpecs)
      ELSE IF nw.Operation = "remove"
      THEN IF nw.DeviceKey = NilKey THEN Fault("Device key not specified for network")
           ELSE LET spec == removeNetworkDeviceSpec(Lookup(nwMap, nw.Name), nw.Name,
                                                    nw.DeviceKey, devices, dvsFault)
                IN  IF spec.kind = "err" THEN Fault("error creating spec for network")
                    ELSE networkDeviceChanges(networks, nwMap, devices, dvsFault, i+1,
                                              addDeviceSpecs, Append(removeDeviceSpecs, spec.spec))
      ELSE Fault("invalid network device operation")

\* networkDeviceChangeSpec; host is what retrieving vmMo.Runtime.Host gave:
\* Nil when the VM names no host, an error, or the host's networks
networkDeviceChangeSpec(networks, host, devices, dvsFault) ==
    IF host = Nil THEN Fault("host associated with vm not found")
    ELSE IF host.kind = "err" THEN Fault("error while fetching host info")
    ELSE networkDeviceChanges(networks,
                              createNetworkMapping(networks, host.Networks).nwMap,
                              devices, dvsFault, 1, <<>>, <<>>)

----------------------------------------------------------------------------
(* Specifications SpecNet (reconfigureNetworks) and SpecNetChange           *)
(* (networkDeviceChangeSpec)                                               *)

\* lists of k distinct network references
MorLists(k) ==
    {l \in SeqsUpTo(NetworkMors, k) : \A i, j \in 1..Len(l) : i # j => l[i] # l[j]}

\* the network cards and the disk a template may hold
NetDevices ==
    {[type |-> "VirtualE1000", Key |-> 4000,
      Backing |-> [kind |-> "VirtualEthernetCardNetworkBackingInfo",
                   DeviceName |-> "net1", Network |-> "network-1"]],
     [type |-> "VirtualVmxnet3", Key |-> 4001,
      Backing |-> [kind |-> "VirtualEthernetCardDistributedVirtualPortBackingInfo",
                   DeviceName |-> "", Network |-> "dvportgroup-2"]],
     [type |-> "VirtualDisk", Key |-> 2000,
      Backing |-> [kind |-> "file", FileName |-> "[ds] t/t.vmdk"]]}

InitNet ==
    /\ vm \in [Networks : SeqsUpTo([Name : NetworkNames, Operation : {""}, DeviceKey : {NilKey}],
                                   MaxNetworks)]
    /\ backend \in
          [location : {Fault("invalid host")}
                        \cup [kind : {"ok"}, Networks : MorLists(MaxHostNets)],
           devList  : {Fault("device retrieval failed")}
                        \cup [kind : {"ok"}, devices : SeqsUpTo(NetDevices, MaxDevices)],
           dvsFault : BOOLEAN]
    /\ pc = "start"
    /\ local = <<>>
    /\ ret = NoReturn

ReconfigureNetworksCall ==
    /\ pc = "start"
    /\ ret' = reconfigureNetworks(vm.Networks, backend.location, backend.devList,
                                  backend.dvsFault)
    /\ pc' = "done"
    /\ UNCHANGED <<vm, backend, local>>

NextNet == ReconfigureNetworksCall

SpecNet == InitNet /\ [][NextNet]_vars

InitNetChange ==
    /\ vm \in [Networks :
                 SeqsUpTo([Name : NetworkNames, Operation : {"", "add", "resize"},
                           DeviceKey : {NilKey}]
                            \cup [Name : NetworkNames, Operation : {"remove"},
                                  DeviceKey : {NilKey, 4000}],
                          MaxNetworks)]
    /\ backend \in
          [host     : {Nil, Fault("retrieval failed")}
                        \cup [kind : {"ok"}, Networks : MorLists(MaxHostNets)],
           devices  : SeqsUpTo(NetDevices, MaxDevices),
           dvsFault : BOOLEAN]
    /\ pc = "start"
    /\ local = <<>>
    /\ ret = NoReturn

NetworkDeviceChangeSpecCall ==
    /\ pc = "start"
    /\ ret' = networkDeviceChangeSpec(vm.Networks, backend.host, backend.devices,
                                      backend.dvsFault)
    /\ pc' = "done"
    /\ UNCHANGED <<vm, backend, local>>

NextNetChange == NetworkDeviceChangeSpecCall

SpecNetChange == InitNetChange /\ [][NextNetChange]_vars

\* the names under which the references of a list can be looked up
ResolvableNames(mors) ==
    {getNetworkName(mors[i]).name :
        i \in {j \in 1..Len(mors) : getNetworkName(mors[j]).kind = "ok"}}

\* C7: a requested network name absent from the host's networks makes
\* networkDeviceChangeSpec return an error (and so no spec for that name).
C7_UnresolvedNameFails ==
    (/\ pc = "done"
     /\ backend.host # Nil
     /\ backend.host.kind = "ok"
     /\ \E i \in 1..Len(vm.Networks) :
            vm.Networks[i].Name \notin ResolvableNames(backend.host.Networks))
        => ret.kind = "err"

\* the same for reconfigureNetworks, where it holds
C7_UnresolvedNameFailsInClone ==
    (/\ pc = "done"
     /\ backend.location.kind = "ok"
     /\ \E i \in 1..Len(vm.Networks) :
            vm.Networks[i].Name \notin ResolvableNames(backend.location.Networks))
        => ret.kind = "err"

\* the template's network cards, in device order
TemplateCards ==
    SelectSeq(backend.devList.devices, LAMBDA d : d.type \in EthernetCardTypes)

\* backing b connects to a network of the location that is named name
BackingIsNetwork(b, name) ==
    \E i \in 1..Len(backend.location.Networks) :
        LET mor == backend.location.Networks[i] IN
        /\ mor.name = name
        /\ b # Nil
        /\ b.Network = mor.Value
        /\ b.kind = IF mor.Type = "Network"
                    THEN "VirtualEthernetCardNetworkBackingInfo"
                    ELSE "VirtualEthernetCardDistributedVirtualPortBackingInfo"

\* C8: on success the i-th network card of the template, for i within
\* vm.Networks, yields one edit entry backed by the i-th requested network,
\* every later card one remove entry, every requested network beyond the
\* cards one add entry; edit plus add entries number len(vm.Networks).
C8_NetworksPairedByPosition ==
    (pc = "done" /\ ret.kind = "ok")
        => LET cards == TemplateCards
               n     == Len(vm.Networks)
               c     == Len(cards)
           IN  /\ Len(ret.specs) = IF c > n THEN c ELSE n
               /\ \A i \in 1..Len(ret.specs) :
                    IF i <= c /\ i <= n
                    THEN /\ ret.specs[i].Operation = "edit"
                         /\ ret.specs[i].Device.Key = cards[i].Key
                         /\ ret.specs[i].Device.type = cards[i].type
                         /\ BackingIsNetwork(ret.specs[i].Device.Backing, vm.Networks[i].Name)
                    ELSE IF i <= c
                    THEN ret.specs[i] = [Operation |-> "remove", Device |-> cards[i]]
                    ELSE /\ ret.specs[i].Operation = "add"
                         /\ BackingIsNetwork(ret.specs[i].Device.Backing, vm.Networks[i].Name)
               /\ Cardinality({i \in 1..Len(ret.specs) :
                                 ret.specs[i].Operation \in {"edit", "add"}}) = n

\* a clone that edits one card to the first network and adds a card for a
\* different second network
C8_Witness ==
    /\ pc = "done" /\ ret.kind = "ok"
    /\ Len(ret.specs) = 2
    /\ ret.specs[1].Operation = "edit" /\ ret.specs[2].Operation = "add"
    /\ vm.Networks[1].Name # vm.Networks[2].Name

\* a call that removes a surplus card
C8_WitnessRemove ==
    /\ pc = "done" /\ ret.kind = "ok"
    /\ \E i \in 1..Len(ret.specs) : ret.specs[i].Operation = "remove"

----------------------------------------------------------------------------
(* The question responder: answerQuestion and resolveAnswerAndOptions *)

\* regexp.MatchString on the patterns and question texts of the model
QuestionTexts == {"Insert disk 2 and retry", "The file is locked"}

Patterns == {"^Insert disk.*", ".*locked$", ".*", "("}

MatchString(pattern, text) ==
    CASE pattern = "("              -> Fault("error parsing regexp")
      [] pattern = ".*"             -> [kind |-> "ok", match |-> TRUE]
      [] pattern = "^Insert disk.*" -> [kind |-> "ok", match |-> text = "Insert disk 2 and retry"]
      [] pattern = ".*locked$"      -> [kind |-> "ok", match |-> text = "The file is locked"]

\* the case folding strings.EqualFold compares under
Fold(str) ==
    CASE str \in {"Retry", "RETRY", "retry"} -> "retry"
      [] str \in {"Cancel", "cancel"}        -> "cancel"
      [] OTHER                               -> str

EqualFold(a, b) == Fold(a) = Fold(b)

\* the loop of resolveAnswerAndOptions from the k-th choice on
RECURSIVE resolveFrom(_, _, _, _, _)
resolveFrom(choiceInfo, answer, k, resolvedAnswer, validOptions) ==
    IF k > Len(choiceInfo)
    THEN [resolvedAnswer |-> resolvedAnswer, validOptions |-> validOptions]
    ELSE resolveFrom(choiceInfo, answer, k+1,
                     IF EqualFold(choiceInfo[k].Summary, answer)
                     THEN choiceInfo[k].Key ELSE resolvedAnswer,
                     Append(validOptions, <<choiceInfo[k].Key, choiceInfo[k].Summary>>))

\* a resolution that submits the configured answer as it is
resolveAnswerAndOptions_Literal(choiceInfo, answer) ==
    [resolveFrom(choiceInfo, answer, 1, answer, <<>>) EXCEPT !.resolvedAnswer = answer]

\* resolveAnswerAndOptions; validOptions is the list of "(key) summary" items
resolveAnswerAndOptions(choiceInfo, answer) ==
    resolveFrom(choiceInfo, answer, 1, answer, <<>>)

\* the state of the loop of answerQuestion: the answers submitted so far,
\* each with whether the backend accepted it, and the error once it returned
LoopStart == [submitted |-> <<>>, err |-> Nil, returned |-> FALSE]

\* a mutant of answerRule that leaves the loop after the first matching rule
answerRule_Break(q, rule, failAt, st) ==
    LET m == MatchString(rule.regex, q.Text)
        a == resolveAnswerAndOptions(q.Choice, rule.answer).resolvedAnswer
        accepted == Len(st.submitted) + 1 # failAt
    IN  IF st.returned THEN st
        ELSE IF m.kind = "err"
        THEN [st EXCEPT !.err = Fault("error while parsing automated responses"),
                        !.returned = TRUE]
        ELSE IF m.match
        THEN [submitted |-> Append(st.submitted,
                                   [Id |-> q.Id, answer |-> a, accepted |-> accepted]),
              err       |-> IF accepted THEN Nil ELSE Fault("error with answer"),
              returned  |-> TRUE]
        ELSE st

\* one iteration of the loop over vm.QuestionResponses; the backend rejects
\* the failAt-th answer submitted to it (none when failAt = 0)
answerRule(q, rule, failAt, st) ==
    LET m == MatchString(rule.regex, q.Text)
        a == resolveAnswerAndOptions(q.Choice, rule.answer).resolvedAnswer
        accepted == Len(st.submitted) + 1 # failAt
    IN  IF st.returned THEN st
        ELSE IF m.kind = "err"
        THEN [st EXCEPT !.err = Fault("error while parsing automated responses"),
                        !.returned = TRUE]
        ELSE IF m.match
        THEN [submitted |-> Append(st.submitted,
                                   [Id |-> q.Id, answer |-> a, accepted |-> accepted]),
              err       |-> IF accepted THEN Nil ELSE Fault("error with answer"),
              returned  |-> ~accepted]
        ELSE st

RECURSIVE answerRules(_, _, _, _, _)
answerRules(q, rules, failAt, k, st) ==
    IF k > Len(rules) THEN st
    ELSE answerRules(q, rules, failAt, k+1, answerRule(q, rules[k], failAt, st))

\* answerQuestion with the rules in the order the range over the map visits
\* them: the answers submitted and the error returned
answerQuestion(q, rules, failAt) ==
    IF q = Nil THEN LoopStart
    ELSE answerRules(q, rules, failAt, 1, LoopStart)

\* the orders in which a range over a Go map may visit its entries
RangeOrders(seq) ==
    {[i \in 1..Len(seq) |-> seq[p[i]]] :
        p \in {f \in [1..Len(seq) -> 1..Len(seq)] :
                  \A i, j \in 1..Len(seq) : i # j => f[i] # f[j]}}

----------------------------------------------------------------------------
(* Specification SpecQuestion: answerQuestion on a retrieved VM.            *)
(* vm.QuestionResponses is a Go map from regex to answer; it is held here  *)
(* as the list of its entries in the order the caller wrote them, with     *)
(* distinct keys.                                                          *)

Choices == {<<>>,
            <<[Key |-> "0", Summary |-> "Retry"], [Key |-> "1", Summary |-> "Cancel"]>>}

Questions == [Id : {"q1"}, Text : QuestionTexts, Choice : Choices]

ResponseTables(n) ==
    {t \in SeqsUpTo([regex : Patterns, answer : {"retry", "Cancel", "1"}], n) :
        \A i, j \in 1..Len(t) : i # j => t[i].regex # t[j].regex}

InitQuestion ==
    /\ vm \in [QuestionResponses : ResponseTables(MaxRules)]
    /\ backend \in [question : {Nil} \cup Questions, answered : {<<>>}]
    /\ pc = "start"
    /\ local = <<>>
    /\ ret = NoReturn

AnswerQuestionCall ==
    /\ pc = "start"
    /\ \E order \in RangeOrders(vm.QuestionResponses),
          failAt \in 0..Len(vm.QuestionResponses) :
          LET r == answerQuestion(backend.question, order, failAt) IN
          /\ backend' = [backend EXCEPT !.answered = r.submitted]
          /\ ret' = r.err
          /\ local' = [order |-> order]
    /\ pc' = "done"
    /\ UNCHANGED vm

NextQuestion == AnswerQuestionCall

SpecQuestion == InitQuestion /\ [][NextQuestion]_vars

\* the entries of the table whose regex matches the pending question
MatchingRules ==
    SelectSeq(vm.QuestionResponses,
              LAMBDA r : /\ r.regex # "("
                         /\ \/ r.regex = ".*"
                            \/ r.regex = "^Insert disk.*"
                                 /\ backend.question.Text = "Insert disk 2 and retry"
                            \/ r.regex = ".*locked$"
                                 /\ backend.question.Text = "The file is locked")

\* the answer the backend is to receive for a rule
AnswerFor(r) == resolveAnswerAndOptions(backend.question.Choice, r.answer).resolvedAnswer

Count(seq, P(_)) == Cardinality({i \in 1..Len(seq) : P(seq[i])})

AnswersOf(submitted) == [i \in 1..Len(submitted) |-> submitted[i].answer]

\* C9 as claimed: one answer per matching rule, in the order of the table,
\* and nothing submitted and nil returned without a question or a match
\* (looked at only when every regex is valid and the backend accepted every
\* answer).
C9_AllMatchingInTableOrder ==
    (/\ pc = "done"
     /\ \A r \in Range(vm.QuestionResponses) : r.regex # "("
     /\ \A i \in 1..Len(backend.answered) : backend.answered[i].accepted) =>
        IF backend.question = Nil \/ Len(MatchingRules) = 0
        THEN backend.answered = <<>> /\ ret = Nil
        ELSE AnswersOf(backend.answered) =
                [i \in 1..Len(MatchingRules) |-> AnswerFor(MatchingRules[i])]

\* C9 amended: the answers submitted are answers of distinct matching rules;
\* when answerQuestion returns nil every matching rule was answered exactly
\* once and accepted; an error comes only from an invalid regex or from the
\* last answer being rejected; without a question nothing is submitted and
\* nil returned, without a matching rule nothing is submitted.
C9_AllMatchingAnyOrder ==
    pc = "done" =>
        IF backend.question = Nil
        THEN backend.answered = <<>> /\ ret = Nil
        ELSE /\ \A r \in Range(vm.QuestionResponses) :
                    Count(backend.answered, LAMBDA s : s.answer = AnswerFor(r))
                        <= Count(MatchingRules, LAMBDA m : AnswerFor(m) = AnswerFor(r))
             /\ \A i \in 1..Len(backend.answered) :
                    /\ backend.answered[i].Id = backend.question.Id
                    /\ \E m \in Range(MatchingRules) : AnswerFor(m) = backend.answered[i].answer
                    /\ i < Len(backend.answered) => backend.answered[i].accepted
             /\ ret = Nil =>
                    /\ Len(backend.answered) = Len(MatchingRules)
                    /\ \A i \in 1..Len(backend.answered) : backend.answered[i].accepted
             /\ ret # Nil =>
                    \/ \E r \in Range(vm.QuestionResponses) : r.regex = "("
                    \/ /\ backend.answered # <<>>
                       /\ ~backend.answered[Len(backend.answered)].accepted
             /\ Len(MatchingRules) = 0 => backend.answered = <<>>

\* two rules matched and both were answered, in the reverse of table order
C9_Witness ==
    /\ pc = "done" /\ ret = Nil
    /\ Len(backend.answered) = 2
    /\ Len(vm.QuestionResponses) = 2
    /\ local.order[1] = vm.QuestionResponses[2]
    /\ backend.answered[1].answer # backend.answered[2].answer

----------------------------------------------------------------------------
(* findVM and searchVmByUuid *)

\* a VM of another datacenter than the handle's, known to the search index
\* only: the reference after those of the handle's datacenter
ForeignVM == MaxFindObjs + 1

\* the instance uuid of a VM
UuidOf(o) ==
    CASE o = ForeignVM -> "uuid-9"
      [] o = 1 -> "uuid-1" [] o = 2 -> "uuid-2" [] o = 3 -> "uuid-3"
      [] OTHER -> "uuid-x"

\* SearchIndex.FindByUuid(dc, uuid, vmSearch = true, instanceUuid = true):
\* the objects the index returns for that uuid, within the handle's
\* datacenter when inDC
FindByUuid(inv, inDC, uuid) ==
    {o \in Objs(inv) : UuidOf(o) = uuid}
        \cup (IF ~inDC /\ UuidOf(ForeignVM) = uuid THEN {ForeignVM} ELSE {})

\* obj.(*object.VirtualMachine): the reference is one of a virtual machine
IsVirtualMachine(inv, o) == o = ForeignVM \/ inv.type[o] = "VirtualMachine"

\* GetDatacenter: the error it returns, NotFound when the datacenters cannot
\* be listed or none has the handle's name
GetDatacenter(fault) ==
    CASE fault = "datacenter"   -> Fault("datacenter")
      [] fault = "nodatacenter" -> ErrorObjectNotFound
      [] OTHER -> Nil

searchVmByUuid_IgnoresScope(inv, fault, searchFilter) ==
    LET found == FindByUuid(inv, FALSE, searchFilter.InstanceUuid)
    IN  IF searchFilter.SearchInDC /\ GetDatacenter(fault) # Nil
        THEN [moVM |-> NilRef, err |-> GetDatacenter(fault)]
        ELSE IF fault = "search" THEN [moVM |-> NilRef, err |-> Fault("search")]
        ELSE IF found = {} \/ ~IsVirtualMachine(inv, CHOOSE o \in found : TRUE)
             THEN [moVM |-> NilRef, err |-> ErrorObjectNotFound]
        ELSE IF fault = "retrieve" THEN [moVM |-> NilRef, err |-> Fault("fault")]
        ELSE [moVM |-> CHOOSE o \in found : TRUE, err |-> Nil]

\* searchVmByUuid: (vmMo, err); fault says which backend call fails
searchVmByUuid(inv, fault, searchFilter) ==
    LET found == FindByUuid(inv, searchFilter.SearchInDC, searchFilter.InstanceUuid)
    IN  IF searchFilter.SearchInDC /\ GetDatacenter(fault) # Nil
        THEN [moVM |-> NilRef, err |-> GetDatacenter(fault)]
        ELSE IF fault = "search" THEN [moVM |-> NilRef, err |-> Fault("search")]
        ELSE IF found = {} \/ ~IsVirtualMachine(inv, CHOOSE o \in found : TRUE)
             THEN [moVM |-> NilRef, err |-> ErrorObjectNotFound]
        ELSE IF fault = "retrieve" THEN [moVM |-> NilRef, err |-> Fault("fault")]
        ELSE [moVM |-> CHOOSE o \in found : TRUE, err |-> Nil]

\* the first half of findVM: the lookup by uuid or by name
resolveVM(inv, fault, searchFilter) ==
    IF searchFilter.InstanceUuid # ""
    THEN searchVmByUuid(inv, fault, searchFilter)
    ELSE IF GetDatacenter(fault) # Nil THEN [moVM |-> NilRef, err |-> GetDatacenter(fault)]
    ELSE LET r == searchTree(inv, 0, searchFilter.Name)
         IN  IF r.kind = "vm" THEN [moVM |-> r.ref, err |-> Nil]
             ELSE [moVM |-> NilRef, err |-> r]

\* a mutant of findVM that drops the error of answerQuestion
findVM_DropsAnswerError(inv, fault, question, searchFilter, rules, failAt) ==
    LET r == resolveVM(inv, fault, searchFilter)
        a == answerQuestion(question, rules, failAt)
    IN  IF r.err # Nil
        THEN [moVM |-> r.moVM, err |-> r.err, resolved |-> FALSE,
              answerQuestionOn |-> <<>>, answerQuestionErr |-> Nil, submitted |-> <<>>]
        ELSE [moVM |-> r.moVM, err |-> Nil, resolved |-> TRUE,
              answerQuestionOn |-> <<r.moVM>>, answerQuestionErr |-> a.err,
              submitted |-> a.submitted]

\* a mutant of findVM that answers the question before looking at the error
findVM_AnswersAlways(inv, fault, question, searchFilter, rules, failAt) ==
    LET r == resolveVM(inv, fault, searchFilter)
        a == answerQuestion(question, rules, failAt)
    IN  [moVM |-> r.moVM, err |-> IF r.err # Nil THEN r.err ELSE a.err,
         resolved |-> r.err = Nil,
         answerQuestionOn |-> <<r.moVM>>, answerQuestionErr |-> a.err,
         submitted |-> a.submitted]

\* findVM: what it returns (moVM, err), on which VM it invoked answerQuestion
\* and with what result, and the answers submitted to the backend
findVM(inv, fault, question, searchFilter, rules, failAt) ==
    LET r == resolveVM(inv, fault, searchFilter)
        a == answerQuestion(question, rules, failAt)
    IN  IF r.err # Nil
        THEN [moVM |-> r.moVM, err |-> r.err, resolved |-> FALSE,
              answerQuestionOn |-> <<>>, answerQuestionErr |-> Nil, submitted |-> <<>>]
        ELSE [moVM |-> r.moVM, err |-> a.err, resolved |-> TRUE,
              answerQuestionOn |-> <<r.moVM>>, answerQuestionErr |-> a.err,
              submitted |-> a.submitted]

getVMSearchFilter(vmName) ==
    [Name |-> vmName, InstanceUuid |-> "", SearchInDC |-> TRUE]

getTempSearchFilter(template) ==
    [Name |-> template.Name, InstanceUuid |-> template.InstanceUuid, SearchInDC |-> FALSE]

----------------------------------------------------------------------------
(* Specification SpecFindVM: findVM with the filters its callers build *)

FindPaths ==
    {PathOfSegments(segs) : segs \in SeqsUpTo({<<"a">>, <<"v">>}, MaxFindSegs) \ {<<>>}}

FindUuids == {"", "uuid-1", "uuid-9"}

\* tables that begin with a rule matching every question, a second rule of
\* which does not parse
FindTables ==
    {t \in ResponseTables(MaxRules) :
        \A i \in 1..Len(t) :
            /\ t[i].answer = "retry"
            /\ t[i].regex = IF i = 1 THEN ".*" ELSE "("}

InitFindVM ==
    /\ vm \in [Name : FindPaths,
               Template : [Name : FindPaths, InstanceUuid : FindUuids],
               QuestionResponses : FindTables]
    /\ vm.Name = vm.Template.Name
    /\ \E inv \in Inventories(MaxFindObjs, {"Folder", "VirtualMachine"},
                             {<<"a">>, <<"v">>}),
          fault \in {"none", "datacenter", "search", "retrieve"} :
          backend \in
             [inv : {[inv EXCEPT !.status =
                        [o \in DOMAIN inv.status |->
                            IF fault = "retrieve" /\ o # 0 THEN "fault" ELSE "ok"]]},
              fault : {fault},
              question : {Nil, [Id |-> "q1", Text |-> "The file is locked",
                                Choice |-> <<[Key |-> "0", Summary |-> "Retry"]>>]},
              answered : {<<>>}]
    /\ pc = "start"
    /\ local = <<>>
    /\ ret = NoReturn

FindVMBy(searchFilter) ==
    /\ pc = "start"
    /\ \E order \in RangeOrders(vm.QuestionResponses),
          failAt \in 0..Len(vm.QuestionResponses) :
          LET r == findVM(backend.inv, backend.fault, backend.question, searchFilter,
                          order, failAt) IN
          /\ backend' = [backend EXCEPT !.answered = r.submitted]
          /\ ret' = [moVM |-> r.moVM, err |-> r.err]
          /\ local' = [searchFilter |-> searchFilter,
                       resolved |-> r.resolved,
                       answerQuestionOn |-> r.answerQuestionOn,
                       answerQuestionErr |-> r.answerQuestionErr]
    /\ pc' = "done"
    /\ UNCHANGED vm

\* a lookup of the VM by name, as getState, shutDown, start do
FindVMByName == FindVMBy(getVMSearchFilter(vm.Name))

\* a lookup of the template by unique id or name, as cloneFromTemplate does
FindTemplate == FindVMBy(getTempSearchFilter(vm.Template))

\* a lookup by unique id within the datacenter
FindVMByUuidInDC ==
    /\ vm.Template.InstanceUuid # ""
    /\ FindVMBy([Name |-> vm.Name, InstanceUuid |-> vm.Template.InstanceUuid,
                 SearchInDC |-> TRUE])

NextFindVM == FindVMByName \/ FindTemplate \/ FindVMByUuidInDC

SpecFindVM == InitFindVM /\ [][NextFindVM]_vars

\* the VMs of the backend a filter can stand for
VMsOfFilter(f) ==
    IF f.InstanceUuid # ""
    THEN {o \in Objs(backend.inv) \cup {ForeignVM} : UuidOf(o) = f.InstanceUuid}
    ELSE VMsAtPath(backend.inv, splitPathToList(f.Name))
            \cup {o \in Objs(backend.inv) : backend.inv.type[o] = "VirtualMachine"}

\* C10: a findVM that resolves a VM invokes answerQuestion on that VM, once,
\* and returns its error; a findVM whose resolution fails does not invoke
\* answerQuestion and submits no answer.
C10_FindVMAnswersQuestion ==
    pc = "done" =>
        /\ local.resolved =>
              /\ ret.moVM # NilRef
              /\ ret.moVM \in VMsOfFilter(local.searchFilter)
              /\ local.answerQuestionOn = <<ret.moVM>>
              /\ ret.err = local.answerQuestionErr
        /\ ~local.resolved =>
              /\ ret.err # Nil
              /\ local.answerQuestionOn = <<>>
              /\ backend.answered = <<>>
        /\ (ret.err = Nil) => local.resolved
        /\ (backend.question # Nil /\ local.resolved /\ ret.err = Nil) =>
              Len(backend.answered) = Len(vm.QuestionResponses)

\* a lookup by name that resolved a VM with a pending question and answered it
C10_Witness ==
    /\ pc = "done" /\ local.resolved /\ ret.err = Nil
    /\ local.searchFilter.InstanceUuid = ""
    /\ backend.answered # <<>>

\* a lookup by unique id that resolved a VM and returned answerQuestion's error
C10_WitnessUuidError ==
    /\ pc = "done" /\ local.resolved /\ ret.err # Nil
    /\ local.searchFilter.InstanceUuid # ""

\* a failed lookup while a question is pending and a rule matches it
C10_WitnessNotFound ==
    /\ pc = "done" /\ ~local.resolved
    /\ backend.question # Nil /\ vm.QuestionResponses # <<>>

----------------------------------------------------------------------------
(* Specification SpecShutDown: shutDown, one step per backend round trip *)

RETRY_COUNT == 20

\* what getState yields: the guest state of the VM, "" with an error
GuestStates == {"running", "shuttingdown", "notRunning"}

TimeoutError == Fault("Shutting down vm timed out")

InitShutDown ==
    /\ vm \in [Name : {<<"v">>}]
    /\ backend \in [guestState : GuestStates]
    /\ pc = "findVM"
    /\ local = [state |-> "", retry |-> 0,
                \* history: polls made, reads made, a read was notRunning
                polls |-> 0, reads |-> 0, readNotRunning |-> FALSE]
    /\ ret = NoReturn

\* findVM fails: shutDown returns its error
ShutDownNoVM ==
    /\ pc = "findVM"
    /\ ret' = ErrorObjectNotFound
    /\ pc' = "done"
    /\ UNCHANGED <<vm, backend, local>>

\* findVM succeeds and ShutdownGuest is issued; it may fail
ShutDownIssue ==
    /\ pc = "findVM"
    /\ \/ /\ ret' = Fault("error initiating shutDown on the vm")
          /\ pc' = "done"
       \/ /\ ret' = ret
          /\ pc' = "getState"
    /\ UNCHANGED <<vm, backend, local>>

\* the guest moves on between two reads
GuestChanges ==
    /\ pc \in {"getState", "loop"}
    /\ \E s \in GuestStates : s # backend.guestState /\ backend' = [guestState |-> s]
    /\ UNCHANGED <<vm, pc, local, ret>>

\* the first getState, before the loop; its error ends shutDown
ShutDownFirstRead ==
    /\ pc = "getState"
    /\ \/ /\ ret' = Fault("Error getting state of vm")
          /\ pc' = "done"
          /\ local' = local
       \/ /\ local' = [local EXCEPT !.state = backend.guestState,
                                    !.retry = RETRY_COUNT,
                                    !.reads = 1,
                                    !.readNotRunning = backend.guestState = "notRunning"]
          /\ pc' = "loop"
          /\ ret' = ret
    /\ UNCHANGED <<vm, backend>>

\* one iteration of the loop: getState (its error ignored, state ""), the
\* sleep, retry--
ShutDownPoll ==
    /\ pc = "loop"
    /\ local.state # "notRunning" /\ local.retry > 0
    /\ \E s \in {backend.guestState, ""} :
          local' = [local EXCEPT !.state = s,
                                 !.retry = @ - 1,
                                 !.polls = @ + 1,
                                 !.reads = @ + 1,
                                 !.readNotRunning = @ \/ s = "notRunning"]
    /\ UNCHANGED <<vm, backend, pc, ret>>

\* the loop has ended: timeout exactly when retry is 0
ShutDownReturn ==
    /\ pc = "loop"
    /\ ~(local.state # "notRunning" /\ local.retry > 0)
    /\ ret' = IF local.retry = 0 THEN TimeoutError ELSE Nil
    /\ pc' = "done"
    /\ UNCHANGED <<vm, backend, local>>

NextShutDown ==
    \/ ShutDownNoVM
    \/ ShutDownIssue
    \/ GuestChanges
    \/ ShutDownFirstRead
    \/ ShutDownPoll
    \/ ShutDownReturn

SpecShutDown == InitShutDown /\ [][NextShutDown]_vars

\* some read of the guest state, the first or a poll, was notRunning
ReadNotRunning == local.readNotRunning

\* C1: once the guest shutdown is issued, shutDown returns nil exactly when
\* one of its reads (the first and at most RETRY_COUNT polls) was notRunning,
\* the timeout error only when none was, and polls at most RETRY_COUNT times.
C1_NilIffNotRunningRead ==
    /\ local.polls <= RETRY_COUNT
    /\ (pc = "done" /\ local.reads > 0)
          => /\ ret = Nil <=> ReadNotRunning
             /\ ret = TimeoutError => ~ReadNotRunning

----------------------------------------------------------------------------
(* Placement: validateHost, filterHosts, findHostSystem, getVMLocation *)

MaxHostDatastores == 2   \* datastores of a host
MaxHosts == 2            \* hosts of a compute resource

\* datastore references with the name a retrieval yields; "fault" marks one
\* whose retrieval fails
DatastoreMors ==
    {[Value |-> "datastore-1", name |-> "ds1", fault |-> FALSE],
     [Value |-> "datastore-2", name |-> "ds2", fault |-> FALSE],
     [Value |-> "datastore-3", name |-> "ds1", fault |-> TRUE]}

DatastoreNames == {"", "ds1", "ds3"}

\* hostNetworks after the first k networks of the host, or the error that
\* ended the loop
RECURSIVE hostNetworksOf(_, _)
hostNetworksOf(networkMors, k) ==
    IF k = 0 THEN [kind |-> "ok", names |-> {}]
    ELSE LET before == hostNetworksOf(networkMors, k-1)
             n      == getNetworkName(networkMors[k])
         IN  IF before.kind = "err" THEN before
             ELSE IF n.kind = "err" THEN n
             ELSE IF n.name = "" THEN Fault("Network name empty")
             ELSE [kind |-> "ok", names |-> before.names \cup {n.name}]

\* the datastore loop from index k on: (dsValid, err)
RECURSIVE dsValidFrom(_, _, _)
dsValidFrom(datastores, datastore, k) ==
    IF k > Len(datastores) THEN [valid |-> FALSE, err |-> Nil]
    ELSE IF datastores[k].fault THEN [valid |-> FALSE, err |-> Fault("retrieval failed")]
    ELSE IF datastores[k].name = datastore THEN [valid |-> TRUE, err |-> Nil]
    ELSE dsValidFrom(datastores, datastore, k+1)

\* the network loop of validateHost: nwValid
nwValid_IgnoresNetworks(networks, hostNetworks) == TRUE

nwValid(networks, hostNetworks) ==
    \A i \in 1..Len(networks) : networks[i].Name \in hostNetworks

\* validateHost: (valid, err); hsMor carries what retrieving the host yields
validateHost(networks, datastore, hsMor) ==
    IF hsMor.fault THEN [valid |-> FALSE, err |-> Fault("retrieval failed")]
    ELSE LET hn == hostNetworksOf(hsMor.Network, Len(hsMor.Network))
         IN  IF hn.kind = "err" THEN [valid |-> FALSE, err |-> hn]
             ELSE IF datastore = "" 
                  THEN [valid |-> nwValid(networks, hn.names), err |-> Nil]
             ELSE LET ds == dsValidFrom(hsMor.Datastore, datastore, 1)
                  IN  IF ds.err # Nil THEN ds
                      ELSE [valid |-> nwValid(networks, hn.names) /\ ds.valid,
                            err   |-> Nil]

RequestedNetworks ==
    SeqsUpTo([Name : NetworkNames, Operation : {""}, DeviceKey : {NilKey}], MaxNetworks)

InitValidateHost ==
    /\ vm \in [Networks : RequestedNetworks, datastore : DatastoreNames]
    /\ backend \in [host : [name      : {"h1"},
                            Network   : MorLists(MaxHostNets),
                            Datastore : SeqsUpTo(DatastoreMors, MaxHostDatastores),
                            fault     : BOOLEAN]]
    /\ pc = "start"
    /\ local = <<>>
    /\ ret = NoReturn

ValidateHostCall ==
    /\ pc = "start"
    /\ ret' = validateHost(vm.Networks, vm.datastore, backend.host)
    /\ pc' = "done"
    /\ UNCHANGED <<vm, backend, local>>

NextValidateHost == ValidateHostCall

SpecValidateHost == InitValidateHost /\ [][NextValidateHost]_vars

\* the names of the host's networks, and of its datastores
HostNetworkNames(h) == {h.Network[i].name : i \in 1..Len(h.Network)}

HostDatastoreNames(h) == {h.Datastore[i].name : i \in 1..Len(h.Datastore)}

HasRequested(h) ==
    /\ \A i \in 1..Len(vm.Networks) : vm.Networks[i].Name \in HostNetworkNames(h)
    /\ vm.datastore # "" => vm.datastore \in HostDatastoreNames(h)

\* C12: validateHost returns true exactly when every name in vm.Networks is
\* the name of one of the host's networks and, if vm.datastore is non-empty,
\* vm.datastore is the name of one of the host's datastores.
C12_ValidIffHasRequested ==
    pc = "done" => (ret.valid <=> HasRequested(backend.host))

\* every retrieval validateHost makes succeeds: the host, each of its
\* networks (of a type whose name can be read, with a non-empty name) and,
\* when a datastore is chosen, each datastore up to the first of that name
RetrievalsSucceed(h) ==
    /\ ~h.fault
    /\ \A i \in 1..Len(h.Network) :
          /\ h.Network[i].Type \in {"Network", "DistributedVirtualPortgroup"}
          /\ ~h.Network[i].fault
          /\ h.Network[i].name # ""
    /\ vm.datastore # "" =>
          \A i \in 1..Len(h.Datastore) :
             h.Datastore[i].fault =>
                \E j \in 1..(i-1) : h.Datastore[j].name = vm.datastore

\* the datastore of that name is one whose retrieval succeeds
HasRequestedReadable(h) ==
    /\ \A i \in 1..Len(vm.Networks) : vm.Networks[i].Name \in HostNetworkNames(h)
    /\ vm.datastore # "" =>
          \E i \in 1..Len(h.Datastore) :
             ~h.Datastore[i].fault /\ h.Datastore[i].name = vm.datastore

\* C12 (amended): when every retrieval succeeds validateHost returns true
\* with no error exactly when the host has every requested network and, if a
\* datastore is chosen, that datastore, the datastores being ignored when none
\* is chosen; when a retrieval fails it returns false with the error.
C12_ValidIffHasRequestedOrError ==
    pc = "done" =>
        IF RetrievalsSucceed(backend.host)
        THEN /\ ret.err = Nil
             /\ ret.valid <=> HasRequestedReadable(backend.host)
             /\ vm.datastore = "" =>
                  (ret.valid <=> \A i \in 1..Len(vm.Networks) :
                                    vm.Networks[i].Name \in HostNetworkNames(backend.host))
        ELSE ret.valid = FALSE /\ ret.err # Nil

\* a host with two networks and the chosen datastore second in its list
\* validated for a request of both networks
C12_Witness ==
    /\ pc = "done" /\ ret.valid /\ ret.err = Nil
    /\ Len(vm.Networks) = 2 /\ vm.Networks[1].Name # vm.Networks[2].Name
    /\ vm.datastore = "ds1"
    /\ Len(backend.host.Datastore) = 2 /\ backend.host.Datastore[1].name = "ds2"

\* the host systems of the backend: "Value" is the reference, the rest is what
\* retrieving the host yields
HostSystems ==
    {[Value |-> "host-1", name |-> "h1", fault |-> FALSE,
      Network |-> << [Type |-> "Network", Value |-> "network-1", name |-> "net1",
                      fault |-> FALSE],
                     [Type |-> "DistributedVirtualPortgroup", Value |-> "dvportgroup-2",
                      name |-> "net2", fault |-> FALSE] >>,
      Datastore |-> << [Value |-> "datastore-1", name |-> "ds1", fault |-> FALSE] >>],
     [Value |-> "host-2", name |-> "h2", fault |-> FALSE,
      Network |-> << [Type |-> "Network", Value |-> "network-1", name |-> "net1",
                      fault |-> FALSE] >>,
      Datastore |-> << [Value |-> "datastore-2", name |-> "ds2", fault |-> FALSE] >>],
     [Value |-> "host-3", name |-> "h3", fault |-> FALSE,
      Network |-> << [Type |-> "Network", Value |-> "network-1", name |-> "net1",
                      fault |-> FALSE],
                     [Type |-> "OpaqueNetwork", Value |-> "network-o5", name |-> "net2",
                      fault |-> FALSE] >>,
      Datastore |-> << [Value |-> "datastore-1", name |-> "ds1", fault |-> FALSE] >>],
     [Value |-> "host-4", name |-> "h4", fault |-> TRUE,
      Network |-> << >>, Datastore |-> << >>],
     [Value |-> "host-5", name |-> "h1", fault |-> FALSE,
      Network |-> << >>, Datastore |-> << >>]}

HostNames == {"", "h1", "h2", "h9"}

DestinationTypes == {"host", "cluster", "resource-pool", ""}

\* the zero location
ZeroLocation == [Host |-> "", ResourcePool |-> "", Networks |-> << >>]

errNoHostsInCluster == Fault("No hosts found in the cluster")

ErrorInvalidHost == Fault("InvalidHost")

ErrorDestinationNotSupported == Fault("DestinationNotSupported")

NoResourcePool == Fault("No valid resource pool found on the host")

Panic(msg) == [kind |-> "panic", err |-> msg]

\* util.Random(min, max): the values a draw can give
Random(min, max) == min..max

\* findHostSystem from index k on: the host, or the error
RECURSIVE findHostSystemFrom(_, _, _)
findHostSystemFrom(hsMors, name, k) ==
    IF k > Len(hsMors) THEN [mo |-> Nil, err |-> ErrorObjectNotFound]
    ELSE IF hsMors[k].fault THEN [mo |-> Nil, err |-> Fault("PropertyRetrieval")]
    ELSE IF hsMors[k].name = name THEN [mo |-> hsMors[k], err |-> Nil]
    ELSE findHostSystemFrom(hsMors, name, k+1)

findHostSystem(hsMors, name) == findHostSystemFrom(hsMors, name, 1)

\* one turn of the loop of filterHosts on a host whose validation gave "v"
filterHost_KeepsAll(filteredHosts, host, v) == Append(filteredHosts, host)

filterHost(filteredHosts, host, v) ==
    IF v.valid THEN Append(filteredHosts, host) ELSE filteredHosts

\* filterHosts over the first k hosts: (filteredHosts, err)
RECURSIVE filterHostsUpTo(_, _, _, _)
filterHostsUpTo(networks, datastore, hosts, k) ==
    IF k = 0 THEN [hosts |-> << >>, err |-> Nil]
    ELSE LET before == filterHostsUpTo(networks, datastore, hosts, k-1)
             v      == validateHost(networks, datastore, hosts[k])
         IN  IF before.err # Nil THEN before
             ELSE IF v.err # Nil THEN [hosts |-> << >>, err |-> v.err]
             ELSE [hosts |-> filterHost(before.hosts, hosts[k], v), err |-> Nil]

filterHosts(networks, datastore, hosts) ==
    filterHostsUpTo(networks, datastore, hosts, Len(hosts))

\* the tail both compute-resource cases share: resource pool and networks
withResourcePool(l, crMo, host) ==
    IF crMo.ResourcePool = ""
    THEN [l |-> [l EXCEPT !.Host = host], err |-> NoResourcePool]
    ELSE [l |-> [Host |-> host, ResourcePool |-> crMo.ResourcePool,
                 Networks |-> crMo.Network],
          err |-> Nil]

\* the host case: the networks are set before the resource pool is tested
hostLocation(v, cr) ==
    IF cr.err # Nil THEN {[l |-> ZeroLocation, err |-> cr.err]}
    ELSE IF Len(cr.mo.Host) = 0
         THEN {[l |-> ZeroLocation, err |-> Panic("index out of range")]}
    ELSE LET r == validateHost(v.Networks, v.datastore, cr.mo.Host[1])
         IN  IF r.err # Nil THEN {[l |-> ZeroLocation, err |-> r.err]}
             ELSE IF ~r.valid THEN {[l |-> ZeroLocation, err |-> ErrorInvalidHost]}
             ELSE IF cr.mo.ResourcePool = ""
                  THEN {[l   |-> [Host |-> cr.mo.Host[1].Value, ResourcePool |-> "",
                                  Networks |-> cr.mo.Network],
                         err |-> NoResourcePool]}
             ELSE {[l   |-> [Host |-> cr.mo.Host[1].Value,
                             ResourcePool |-> cr.mo.ResourcePool,
                             Networks |-> cr.mo.Network],
                    err |-> Nil]}

namedHostLocation_NoValidCheck(v, cr) ==
    LET h == findHostSystem(cr.mo.Host, v.Destination.HostSystem)
        r == validateHost(v.Networks, v.datastore, h.mo)
    IN  IF h.err # Nil THEN {[l |-> ZeroLocation, err |-> h.err]}
        ELSE IF r.err # Nil THEN {[l |-> ZeroLocation, err |-> r.err]}
        ELSE {withResourcePool(ZeroLocation, cr.mo, h.mo.Value)}

\* the cluster case with a host name
namedHostLocation(v, cr) ==
    LET h == findHostSystem(cr.mo.Host, v.Destination.HostSystem)
        r == validateHost(v.Networks, v.datastore, h.mo)
    IN  IF h.err # Nil THEN {[l |-> ZeroLocation, err |-> h.err]}
        ELSE IF r.err # Nil THEN {[l |-> ZeroLocation, err |-> r.err]}
        ELSE IF ~r.valid THEN {[l |-> ZeroLocation, err |-> ErrorInvalidHost]}
        ELSE {withResourcePool(ZeroLocation, cr.mo, h.mo.Value)}

\* the cluster case without one: one outcome per draw
randomHostLocation(v, cr) ==
    LET f == filterHosts(v.Networks, v.datastore, cr.mo.Host)
    IN  IF f.err # Nil THEN {[l |-> ZeroLocation, err |-> f.err]}
        ELSE IF Len(f.hosts) <= 0
             THEN {[l |-> ZeroLocation, err |-> Fault("No suitable hosts found in the cluster")]}
        ELSE {withResourcePool(ZeroLocation, cr.mo, f.hosts[n + 1].Value) :
                 n \in Random(0, Len(f.hosts) - 1)}

clusterLocation(v, cr) ==
    IF cr.err # Nil THEN {[l |-> ZeroLocation, err |-> cr.err]}
    ELSE IF Len(cr.mo.Host) <= 0 THEN {[l |-> ZeroLocation, err |-> errNoHostsInCluster]}
    ELSE IF v.Destination.HostSystem # "" THEN namedHostLocation(v, cr)
    ELSE randomHostLocation(v, cr)

\* the resource-pool case: rp is what findResourcePoolByMOID gave, ownerFault
\* whether retrieving the owner's networks fails
resourcePoolLocation(v, rp, owner) ==
    IF rp.err # Nil THEN {[l |-> ZeroLocation, err |-> rp.err]}
    ELSE IF owner.err # Nil THEN {[l |-> ZeroLocation, err |-> owner.err]}
    ELSE {[l   |-> [Host |-> "", ResourcePool |-> rp.Value, Networks |-> owner.Network],
           err |-> Nil]}

\* getVMLocation: the set of (l, err) it can return; cr is what resolving the
\* compute resource of the destination name gave
getVMLocation(v, cr, rp, owner) ==
    CASE v.Destination.DestinationType = "host"          -> hostLocation(v, cr)
      [] v.Destination.DestinationType = "cluster"       -> clusterLocation(v, cr)
      [] v.Destination.DestinationType = "resource-pool" -> resourcePoolLocation(v, rp, owner)
      [] OTHER -> {[l |-> ZeroLocation, err |-> ErrorDestinationNotSupported]}

\* what resolving the destination's compute resource can give
ComputeResources ==
    {[mo |-> Nil, err |-> ErrorObjectNotFound]}
        \cup [mo  : [Host         : SeqsUpTo(HostSystems, MaxHosts),
                     ResourcePool : {"", "resgroup-1"},
                     Network      : {<< >>}],
              err : {Nil}]

ResourcePools ==
    {[Value |-> "", err |-> ErrorObjectNotFound], [Value |-> "resgroup-9", err |-> Nil]}

Owners ==
    {[Network |-> << >>, err |-> Fault("retrieval failed")],
     [Network |-> << >>, err |-> Nil]}

InitLocation ==
    /\ vm \in [Networks    : RequestedNetworks,
               datastore   : {"", "ds1"},
               Destination : [DestinationType : DestinationTypes, HostSystem : HostNames]]
    /\ vm.Destination.DestinationType # "cluster" => vm.Destination.HostSystem = ""
    /\ backend \in [cr : ComputeResources, rp : ResourcePools, owner : Owners]
    /\ vm.Destination.DestinationType \in {"host", "cluster"} =>
          backend.rp.err = Nil /\ backend.owner.err = Nil
    /\ vm.Destination.DestinationType \notin {"host", "cluster"} =>
          /\ backend.cr.err # Nil
          /\ vm.Networks = << >> /\ vm.datastore = ""
    /\ pc = "start"
    /\ local = <<>>
    /\ ret = NoReturn

GetVMLocationCall ==
    /\ pc = "start"
    /\ ret' \in getVMLocation(vm, backend.cr, backend.rp, backend.owner)
    /\ pc' = "done"
    /\ UNCHANGED <<vm, backend, local>>

NextLocation == GetVMLocationCall

SpecLocation == InitLocation /\ [][NextLocation]_vars

\* the hosts of the resolved compute resource
HostsOfDestination == Range(backend.cr.mo.Host)

\* the host passes validation: every retrieval succeeds and it has what the
\* request names
PassesValidation(h) == RetrievalsSucceed(h) /\ HasRequested(h)

\* the host fails validation: every retrieval succeeds and it lacks something
FailsValidation(h) == RetrievalsSucceed(h) /\ ~HasRequested(h)

\* C11: whenever getVMLocation succeeds for a host or cluster destination,
\* the host it returns is a host of the destination that has every requested
\* network and, when a datastore was chosen, that datastore; whichever
\* host the random choice takes, it is never one that fails validation.
C11_ReturnedHostIsValid ==
    (/\ pc = "done"
     /\ vm.Destination.DestinationType \in {"host", "cluster"}
     /\ ret.err = Nil)
        => \E h \in HostsOfDestination :
              /\ h.Value = ret.l.Host
              /\ PassesValidation(h)

\* a random choice in a cluster of a valid host and a planted invalid one
C11_Witness ==
    /\ pc = "done" /\ ret.err = Nil
    /\ vm.Destination.DestinationType = "cluster" /\ vm.Destination.HostSystem = ""
    /\ Len(vm.Networks) = 2 /\ vm.datastore = "ds1"
    /\ Len(backend.cr.mo.Host) = 2
    /\ backend.cr.mo.Host[1].Value = "host-2"
    /\ ret.l.Host = "host-1"

\* the host findHostSystem stops at: the first of that name
FirstNamed(hosts, name) ==
    LET S == {i \in 1..Len(hosts) : hosts[i].name = name}
    IN  hosts[CHOOSE i \in S : \A j \in S : i <= j]

NoLocation == ret.err # Nil /\ ret.err.kind = "err" /\ ret.l = ZeroLocation

\* C13: for a cluster destination getVMLocation returns an error and no
\* location when the cluster has no hosts, when no host name is given and no
\* host passes validation, or when the named host is not in the cluster or
\* fails validation; for a host destination it returns the invalid-host
\* error when the compute resource's first host fails validation.
C13_PlacementErrors ==
    (pc = "done" /\ backend.cr.err = Nil) =>
       LET hosts == backend.cr.mo.Host
           name  == vm.Destination.HostSystem
       IN  /\ vm.Destination.DestinationType = "cluster" =>
                /\ Len(hosts) = 0 => ret.err = errNoHostsInCluster /\ NoLocation
                /\ (name = "" /\ \A h \in Range(hosts) : ~PassesValidation(h)) => NoLocation
                /\ (name # "" /\ \A h \in Range(hosts) : h.name # name) => NoLocation
                /\ (/\ name # ""
                    /\ \E h \in Range(hosts) : h.name = name
                    /\ ~PassesValidation(FirstNamed(hosts, name))) => NoLocation
           /\ (/\ vm.Destination.DestinationType = "host"
               /\ Len(hosts) > 0
               /\ FailsValidation(hosts[1]))
                 => ret.err = ErrorInvalidHost /\ NoLocation

\* a cluster of two hosts neither of which has the requested networks, no
\* host name given
C13_Witness ==
    /\ pc = "done"
    /\ vm.Destination.DestinationType = "cluster" /\ vm.Destination.HostSystem = ""
    /\ backend.cr.err = Nil /\ Len(backend.cr.mo.Host) = 2
    /\ \A h \in HostsOfDestination : FailsValidation(h)
    /\ ret.err = Fault("No suitable hosts found in the cluster")

\* the named host is in the cluster and lacks a requested network
C13_WitnessNamed ==
    /\ pc = "done"
    /\ vm.Destination.DestinationType = "cluster" /\ vm.Destination.HostSystem = "h2"
    /\ backend.cr.err = Nil
    /\ \E h \in HostsOfDestination : h.name = "h2" /\ FailsValidation(h)
    /\ ret.err = ErrorInvalidHost

----------------------------------------------------------------------------
(* cloneFromTemplate: the static-IP customization spec under checkCustomSpecMutex *)

MaxCallers == 2    \* concurrent cloneFromTemplate calls

Callers == 1..MaxCallers

\* no caller holds the mutex
Unlocked == 0

\* the positions of a caller between Lock and Unlock
CriticalSection == {"check", "xml", "create", "get", "update", "unlock", "unlockErr"}

\* vm, pc and ret are per caller; backend is the customization spec manager:
\* whether the spec exists, how many network adapters the stored spec and the
\* one made from the XML have, how often it was created, and whether a create
\* was issued while it existed; local holds the mutex and each caller's
\* "exists"
InitCustomSpec ==
    /\ vm \in [Callers -> [NetworkSetting : [Ip : {"", "10.0.0.5"},
                                             SubnetMask : {"255.255.255.0"}]]]
    /\ backend \in [exists : BOOLEAN, nics : {0, 1}, xmlNics : {1},
                    created : {0}, dupCreate : {FALSE}]
    /\ (~backend.exists) => backend.nics = 0
    /\ pc = [p \in Callers |-> "start"]
    /\ local = [checkCustomSpecMutex |-> Unlocked,
                exists  |-> [p \in Callers |-> FALSE],
                crashed |-> FALSE]
    /\ ret = [p \in Callers |-> NoReturn]

Goto(p, label) == pc' = [pc EXCEPT ![p] = label]

Return(p, err) == ret' = [ret EXCEPT ![p] = err]

\* the steps before the lock: they fail, or reach the Lock call
CloneBeforeLock(p) ==
    /\ ~local.crashed /\ pc[p] = "start"
    /\ \/ Goto(p, "lock") /\ UNCHANGED ret
       \/ Goto(p, "done") /\ Return(p, Fault("error retrieving template"))
    /\ UNCHANGED <<vm, backend, local>>

Lock_NoWait(p) ==
    /\ ~local.crashed /\ pc[p] = "lock"
    /\ local' = [local EXCEPT !.checkCustomSpecMutex = p]
    /\ Goto(p, "check")
    /\ UNCHANGED <<vm, backend, ret>>

\* checkCustomSpecMutex.Lock(): blocks while another caller holds it
Lock(p) ==
    /\ ~local.crashed /\ pc[p] = "lock"
    /\ local.checkCustomSpecMutex = Unlocked
    /\ local' = [local EXCEPT !.checkCustomSpecMutex = p]
    /\ Goto(p, "check")
    /\ UNCHANGED <<vm, backend, ret>>

\* DoesCustomizationSpecExist
CheckExists(p) ==
    /\ ~local.crashed /\ pc[p] = "check"
    /\ \/ /\ local' = [local EXCEPT !.exists[p] = backend.exists]
          /\ Goto(p, IF backend.exists THEN "get" ELSE "xml")
          /\ UNCHANGED ret
       \/ /\ Goto(p, "unlockErr")
          /\ Return(p, Fault("Error creating custom spec"))
          /\ UNCHANGED local
    /\ UNCHANGED <<vm, backend>>

\* createCustomSpecStaticIp: XmlToCustomizationSpecItem
XmlToSpecItem(p) ==
    /\ ~local.crashed /\ pc[p] = "xml"
    /\ \/ Goto(p, "create") /\ UNCHANGED ret
       \/ Goto(p, "unlockErr") /\ Return(p, Fault("Error creating custom spec"))
    /\ UNCHANGED <<vm, backend, local>>

\* createCustomSpecStaticIp: CreateCustomizationSpec; the manager refuses a
\* spec of a name it already has
CreateSpec(p) ==
    /\ ~local.crashed /\ pc[p] = "create"
    /\ \/ /\ ~backend.exists
          /\ backend' = [backend EXCEPT !.exists = TRUE, !.nics = backend.xmlNics,
                                        !.created = @ + 1]
          /\ Goto(p, "get") /\ UNCHANGED ret
       \/ /\ backend' = [backend EXCEPT !.dupCreate = @ \/ backend.exists]
          /\ Goto(p, "unlockErr")
          /\ Return(p, Fault("Error creating custom spec"))
    /\ UNCHANGED <<vm, local>>

\* GetCustomizationSpec
GetSpec(p) ==
    /\ ~local.crashed /\ pc[p] = "get"
    /\ \/ backend.exists /\ Goto(p, "update") /\ UNCHANGED ret
       \/ Goto(p, "unlockErr") /\ Return(p, Fault("Error retrieving custom spec"))
    /\ UNCHANGED <<vm, backend, local>>

\* updateCustomSpec: nil without an address, NicSettingMap[0] otherwise
UpdateSpec(p) ==
    /\ ~local.crashed /\ pc[p] = "update"
    /\ IF vm[p].NetworkSetting.Ip = "" \/ vm[p].NetworkSetting.SubnetMask = ""
          \/ backend.nics > 0
       THEN Goto(p, "unlock") /\ UNCHANGED <<ret, local>>
       ELSE /\ local' = [local EXCEPT !.crashed = TRUE]
            /\ Goto(p, "done")
            /\ Return(p, Panic("index out of range"))
    /\ UNCHANGED <<vm, backend>>

\* checkCustomSpecMutex.Unlock(), on the error returns and after the update
Unlock(p) ==
    /\ ~local.crashed /\ pc[p] \in {"unlock", "unlockErr"}
    /\ local' = [local EXCEPT !.checkCustomSpecMutex = Unlocked]
    /\ Goto(p, IF pc[p] = "unlock" THEN "clone" ELSE "done")
    /\ UNCHANGED <<vm, backend, ret>>

\* the clone submission and what follows it
CloneAfterUnlock(p) ==
    /\ ~local.crashed /\ pc[p] = "clone"
    /\ Goto(p, "done")
    /\ \/ Return(p, Nil)
       \/ Return(p, Fault("error cloning vm from template"))
    /\ UNCHANGED <<vm, backend, local>>

NextCustomSpec ==
    \E p \in Callers :
        \/ CloneBeforeLock(p)
        \/ Lock(p)
        \/ CheckExists(p)
        \/ XmlToSpecItem(p)
        \/ CreateSpec(p)
        \/ GetSpec(p)
        \/ UpdateSpec(p)
        \/ Unlock(p)
        \/ CloneAfterUnlock(p)

SpecCustomSpec == InitCustomSpec /\ [][NextCustomSpec]_vars

InCriticalSection == {p \in Callers : pc[p] \in CriticalSection}

\* C14: among the concurrent cloneFromTemplate calls at most one is between
\* Lock and Unlock at any time, it is the one holding checkCustomSpecMutex,
\* and no create is issued while the spec exists: it is created at most once.
C14_CheckAndCreateExclusive ==
    /\ Cardinality(InCriticalSection) <= 1
    /\ \A p \in InCriticalSection : local.checkCustomSpecMutex = p
    /\ ~backend.dupCreate
    /\ backend.created <= 1

\* the spec did not exist, one caller created it while another waited at
\* Lock, and both calls went on to clone
C14_Witness ==
    /\ backend.created = 1
    /\ \A p \in Callers : pc[p] = "done" /\ ret[p] = Nil

\* one caller is inside check-and-create while another waits for the mutex
C14_WitnessWaiting ==
    \E p, q \in Callers : pc[p] = "create" /\ pc[q] = "lock"

----------------------------------------------------------------------------
(* The tail of cloneFromTemplate, start and halt, one backend call per step *)

MaxNewDisks == 1     \* entries of vm.Disks

\* the values of guest.guestState
AllGuestStates == {"running", "shuttingdown", "resetting", "standby", "notRunning", "unknown"}

ErrorVMPowerStateChanging == Fault("ErrorVMPowerStateChanging")

ErrVMInfoFailed == Fault("Error getting state of vm")

\* how a task ends: WaitForResult fails, the result embeds a fault, or neither
TaskOutcomes == {"ok", "waitError", "fault"}

\* vm.op is the operation called; local.trace lists the backend calls made so
\* far by call site, local.state what start read as the guest state,
\* local.haltState what halt read, local.outcome how each task waited for
\* ended, local.failedAt the call whose failure ended the operation
InitPower ==
    /\ vm \in [op : {"clone", "start", "halt"},
               Disks : SeqsUpTo({[Size |-> 10]}, MaxNewDisks),
               SkipIPWait : BOOLEAN]
    /\ vm.op # "clone" => vm.Disks = << >>
    /\ backend = << >>
    /\ pc = vm.op
    /\ local = [trace |-> << >>, state |-> "", haltState |-> "", failedAt |-> "",
                outcome |-> [t \in {"Clone", "PowerOn", "PowerOff"} |-> ""]]
    /\ ret = NoReturn

Called(event) == [local EXCEPT !.trace = Append(@, event)]

Fail(event, err) ==
    /\ local' = [Called(event) EXCEPT !.failedAt = event]
    /\ pc' = "done"
    /\ ret' = err

\* the wait for a task ended with outcome o
Waited(task, event, o) == [Called(event) EXCEPT !.outcome[task] = o]

FailWait(task, event, o, err) ==
    /\ local' = [Waited(task, event, o) EXCEPT !.failedAt = event]
    /\ pc' = "done"
    /\ ret' = err

\* where a call of start that returned nil continues
AfterStart ==
    CASE vm.op = "start" -> "done"
      [] vm.op = "halt"  -> "halt.findVM"
      [] vm.op = "clone" -> IF vm.SkipIPWait THEN "done" ELSE "clone.waitForIP"

Continue(label) ==
    /\ pc' = label
    /\ ret' = IF label = "done" THEN Nil ELSE ret

\* vmObj.Clone
CloneSubmit ==
    /\ pc = "clone"
    /\ \/ local' = Called("Clone") /\ pc' = "clone.wait" /\ UNCHANGED ret
       \/ Fail("Clone", Fault("error cloning vm from template"))
    /\ UNCHANGED <<vm, backend>>

CloneWait_IgnoresFault ==
    /\ pc = "clone.wait"
    /\ \E o \in TaskOutcomes :
          IF o = "waitError"
          THEN FailWait("Clone", "Clone.wait", o,
                        Fault("error waiting for clone task to finish"))
          ELSE /\ local' = Waited("Clone", "Clone.wait", o)
               /\ pc' = "clone.findVM" /\ UNCHANGED ret
    /\ UNCHANGED <<vm, backend>>

\* t.WaitForResult and the test of tInfo.Error
CloneWait ==
    /\ pc = "clone.wait"
    /\ \E o \in TaskOutcomes :
          CASE o = "waitError" ->
                  FailWait("Clone", "Clone.wait", o,
                           Fault("error waiting for clone task to finish"))
            [] o = "fault" ->
                  FailWait("Clone", "Clone.wait", o, Fault("clone task finished with error"))
            [] o = "ok" ->
                  /\ local' = Waited("Clone", "Clone.wait", o)
                  /\ pc' = "clone.findVM" /\ UNCHANGED ret
    /\ UNCHANGED <<vm, backend>>

\* findVM(vm, getVMSearchFilter(vm.Name)) of the new VM
CloneFindVM ==
    /\ pc = "clone.findVM"
    /\ \/ /\ local' = Called("findVM")
          /\ pc' = IF Len(vm.Disks) > 0 THEN "clone.reconfigureVM" ELSE "start"
          /\ UNCHANGED ret
       \/ Fail("findVM", Fault("failed to retrieve cloned VM"))
    /\ UNCHANGED <<vm, backend>>

CloneReconfigureVM ==
    /\ pc = "clone.reconfigureVM"
    /\ \/ local' = Called("reconfigureVM") /\ pc' = "start" /\ UNCHANGED ret
       \/ Fail("reconfigureVM", Fault("Failed to add device"))
    /\ UNCHANGED <<vm, backend>>

\* the waitForIP of cloneFromTemplate, after start
CloneWaitForIP ==
    /\ pc = "clone.waitForIP"
    /\ \/ local' = Called("waitForIP") /\ Continue("done")
       \/ Fail("waitForIP", Fault("failed to wait for VM to get ips"))
    /\ UNCHANGED <<vm, backend>>

StartFindVM_NoStateCheck ==
    /\ pc = "start"
    /\ \/ \E state \in AllGuestStates :
             /\ local' = [Called("start.findVM") EXCEPT !.state = state]
             /\ pc' = "start.PowerOn" /\ UNCHANGED ret
       \/ Fail("start.findVM", ErrorObjectNotFound)
    /\ UNCHANGED <<vm, backend>>

\* start: findVM and the test of the guest state
StartFindVM ==
    /\ pc = "start"
    /\ \/ \E state \in AllGuestStates :
             /\ local' = [Called("start.findVM") EXCEPT !.state = state]
             /\ IF state = "shuttingdown" \/ state = "resetting"
                THEN pc' = "done" /\ ret' = ErrorVMPowerStateChanging
                ELSE pc' = "start.PowerOn" /\ UNCHANGED ret
       \/ Fail("start.findVM", ErrorObjectNotFound)
    /\ UNCHANGED <<vm, backend>>

\* vmo.PowerOn
StartPowerOn ==
    /\ pc = "start.PowerOn"
    /\ \/ local' = Called("PowerOn") /\ pc' = "start.wait" /\ UNCHANGED ret
       \/ Fail("PowerOn", Fault("error creating a poweron task on the vm"))
    /\ UNCHANGED <<vm, backend>>

\* poweronTask.WaitForResult and the test of tInfo.Error
StartWait ==
    /\ pc = "start.wait"
    /\ \E o \in TaskOutcomes :
          CASE o = "waitError" ->
                  FailWait("PowerOn", "PowerOn.wait", o,
                           Fault("error waiting for poweron task"))
            [] o = "fault" ->
                  FailWait("PowerOn", "PowerOn.wait", o,
                           Fault("poweron task returned an error"))
            [] o = "ok" ->
                  /\ local' = Waited("PowerOn", "PowerOn.wait", o)
                  /\ Continue(IF vm.SkipIPWait THEN AfterStart ELSE "start.waitForIP")
    /\ UNCHANGED <<vm, backend>>

\* the waitForIP of start
StartWaitForIP ==
    /\ pc = "start.waitForIP"
    /\ \/ local' = Called("start.waitForIP") /\ Continue(AfterStart)
       \/ Fail("start.waitForIP", Fault("failed to wait for VM to get ips"))
    /\ UNCHANGED <<vm, backend>>

HaltGetState_NeverStarts ==
    /\ pc = "halt"
    /\ \/ \E state \in AllGuestStates :
             /\ local' = [Called("halt.getState") EXCEPT !.haltState = state]
             /\ pc' = "halt.findVM"
             /\ UNCHANGED ret
       \/ Fail("halt.getState", ErrVMInfoFailed)
    /\ UNCHANGED <<vm, backend>>

\* halt: getState and the test for standby
HaltGetState ==
    /\ pc = "halt"
    /\ \/ \E state \in AllGuestStates :
             /\ local' = [Called("halt.getState") EXCEPT !.haltState = state]
             /\ pc' = IF state = "standby" THEN "start" ELSE "halt.findVM"
             /\ UNCHANGED ret
       \/ Fail("halt.getState", ErrVMInfoFailed)
    /\ UNCHANGED <<vm, backend>>

HaltFindVM ==
    /\ pc = "halt.findVM"
    /\ \/ local' = Called("halt.findVM") /\ pc' = "halt.PowerOff" /\ UNCHANGED ret
       \/ Fail("halt.findVM", ErrorObjectNotFound)
    /\ UNCHANGED <<vm, backend>>

\* vmo.PowerOff
HaltPowerOff ==
    /\ pc = "halt.PowerOff"
    /\ \/ local' = Called("PowerOff") /\ pc' = "halt.wait" /\ UNCHANGED ret
       \/ Fail("PowerOff", Fault("error creating a poweroff task on the vm"))
    /\ UNCHANGED <<vm, backend>>

\* poweroffTask.WaitForResult and the test of tInfo.Error
HaltWait ==
    /\ pc = "halt.wait"
    /\ \E o \in TaskOutcomes :
          CASE o = "waitError" ->
                  FailWait("PowerOff", "PowerOff.wait", o,
                           Fault("error waiting for poweroff task"))
            [] o = "fault" ->
                  FailWait("PowerOff", "PowerOff.wait", o,
                           Fault("poweroff task returned an error"))
            [] o = "ok" ->
                  /\ local' = Waited("PowerOff", "PowerOff.wait", o)
                  /\ Continue("done")
    /\ UNCHANGED <<vm, backend>>

NextPower ==
    \/ CloneSubmit
    \/ CloneWait
    \/ CloneFindVM
    \/ CloneReconfigureVM
    \/ CloneWaitForIP
    \/ StartFindVM
    \/ StartPowerOn
    \/ StartWait
    \/ StartWaitForIP
    \/ HaltGetState
    \/ HaltFindVM
    \/ HaltPowerOff
    \/ HaltWait

SpecPower == InitPower /\ [][NextPower]_vars

\* the positions of an event in the trace, and whether it occurs
Positions(event) == {i \in 1..Len(local.trace) : local.trace[i] = event}

Occurs(event) == Positions(event) # {}

\* every occurrence of a precedes every occurrence of b, and b occurs only
\* after a
Precedes(a, b) ==
    \A j \in Positions(b) : \E i \in Positions(a) : i < j

StartEvents == {"start.findVM", "PowerOn", "PowerOn.wait", "start.waitForIP"}

IsError(r) == r # Nil /\ r # NoReturn /\ r.kind = "err"

CloneTaskFailed ==
    local.failedAt = "Clone" \/ local.outcome["Clone"] \in {"waitError", "fault"}

\* C15: cloneFromTemplate submits the clone task and waits for it, re-resolves
\* the new VM by name, runs reconfigureVM (only when vm.Disks is non-empty),
\* powers on and waits for an IP (only when SkipIPWait is false), in this
\* order; a clone submission error, a wait error or a fault embedded in the
\* task result returns an error at once and none of the later steps runs.
C15_CloneStepOrder ==
    vm.op = "clone" =>
        /\ Precedes("Clone", "Clone.wait")
        /\ Precedes("Clone.wait", "findVM")
        /\ Precedes("findVM", "reconfigureVM")
        /\ Precedes("findVM", "PowerOn")
        /\ Occurs("reconfigureVM") => Precedes("reconfigureVM", "PowerOn")
        /\ Precedes("PowerOn", "start.waitForIP")
        /\ Precedes("PowerOn", "waitForIP")
        /\ Occurs("reconfigureVM") => Len(vm.Disks) > 0
        /\ (Occurs("PowerOn") /\ Len(vm.Disks) > 0) => Occurs("reconfigureVM")
        /\ (Occurs("waitForIP") \/ Occurs("start.waitForIP")) => ~vm.SkipIPWait
        /\ (pc = "done" /\ ret = Nil) =>
              /\ Occurs("PowerOn")
              /\ ~vm.SkipIPWait => Occurs("waitForIP")
        /\ CloneTaskFailed =>
              /\ pc = "done" /\ IsError(ret)
              /\ \A e \in {"findVM", "reconfigureVM", "waitForIP"} \cup StartEvents :
                    ~Occurs(e)

\* a clone with a disk to add and an IP to wait for that ran every step
C15_Witness ==
    /\ vm.op = "clone" /\ pc = "done" /\ ret = Nil
    /\ Len(vm.Disks) > 0 /\ ~vm.SkipIPWait
    /\ Occurs("reconfigureVM") /\ Occurs("waitForIP")

\* a clone whose task result embedded a fault
C15_WitnessFault ==
    /\ vm.op = "clone" /\ pc = "done" /\ local.outcome["Clone"] = "fault"
    /\ IsError(ret)

\* start has read the guest state
StartReadState == local.state # ""

\* C18: start returns the power-state-changing error without submitting a
\* power-on task when the guest state is shuttingdown or resetting; in every
\* other state it submits exactly one power-on task, waits for its result,
\* treats a wait error or embedded fault as failure, and waits for an IP
\* only when SkipIPWait is false.
C18_StartRejectsChangingState ==
    StartReadState =>
        /\ local.state \in {"shuttingdown", "resetting"} =>
              /\ pc = "done" /\ ret = ErrorVMPowerStateChanging
              /\ ~Occurs("PowerOn")
        /\ local.state \notin {"shuttingdown", "resetting"} =>
              /\ Cardinality(Positions("PowerOn")) =
                    IF pc = "start.PowerOn" THEN 0 ELSE 1
              /\ (pc # "start.PowerOn" /\ pc # "start.wait" /\ local.failedAt # "PowerOn")
                    => Cardinality(Positions("PowerOn.wait")) = 1
              /\ local.outcome["PowerOn"] \in {"waitError", "fault"} =>
                    /\ pc = "done" /\ IsError(ret)
                    /\ ~Occurs("start.waitForIP") /\ ~Occurs("PowerOff")
              /\ Occurs("start.waitForIP") =>
                    ~vm.SkipIPWait /\ local.outcome["PowerOn"] = "ok"
              /\ (vm.op = "start" /\ pc = "done" /\ ret = Nil) =>
                    /\ local.outcome["PowerOn"] = "ok"
                    /\ Occurs("start.waitForIP") <=> ~vm.SkipIPWait

\* start met a resetting guest and returned the error
C18_Witness ==
    /\ vm.op = "start" /\ pc = "done" /\ local.state = "resetting"
    /\ ret = ErrorVMPowerStateChanging

\* start powered a stopped guest on and waited for its IP
C18_WitnessPowerOn ==
    /\ vm.op = "start" /\ pc = "done" /\ ret = Nil /\ local.state = "notRunning"
    /\ Occurs("PowerOn") /\ Occurs("start.waitForIP")

\* the call of start that halt made returned nil
StartSucceeded ==
    /\ local.outcome["PowerOn"] = "ok"
    /\ vm.SkipIPWait \/ (Occurs("start.waitForIP") /\ local.failedAt # "start.waitForIP")

\* C19: halt on a VM whose state is standby first runs start and submits the
\* power-off task only if start succeeded; in every other state it submits
\* the power-off task without powering on; in both cases it waits for the
\* power-off task and returns an error on a wait error or embedded fault.
C19_HaltStartsStandbyFirst ==
    (vm.op = "halt" /\ local.haltState # "") =>
        /\ local.haltState = "standby" =>
              /\ (pc = "halt.findVM" \/ Occurs("halt.findVM")) => StartSucceeded
              /\ Occurs("PowerOff") => StartSucceeded /\ Precedes("PowerOn", "PowerOff")
              /\ pc \notin {"halt", "start"} => Occurs("start.findVM")
        /\ local.haltState # "standby" =>
              /\ \A e \in StartEvents : ~Occurs(e)
              /\ (pc = "done" /\ ret = Nil) => Occurs("PowerOff")
        /\ (pc = "done" /\ Occurs("PowerOff") /\ local.failedAt # "PowerOff")
              => Occurs("PowerOff.wait")
        /\ local.outcome["PowerOff"] \in {"waitError", "fault"} => pc = "done" /\ IsError(ret)
        /\ (pc = "done" /\ ret = Nil) => local.outcome["PowerOff"] = "ok"

\* halt of a standby VM: powered on, then powered off
C19_Witness ==
    /\ vm.op = "halt" /\ pc = "done" /\ ret = Nil /\ local.haltState = "standby"
    /\ Occurs("PowerOn") /\ Occurs("PowerOff.wait")

\* halt of a standby VM whose start failed: no power-off
C19_WitnessStartFailed ==
    /\ vm.op = "halt" /\ pc = "done" /\ local.haltState = "standby"
    /\ local.outcome["PowerOn"] = "fault" /\ ~Occurs("PowerOff")

----------------------------------------------------------------------------
(* waitForGuestStatus, reset and restart *)

MaxChanges == 2     \* property changes in one update of the collector

\* the const block starts with GUEST_HEART_BEAT_STATUS, so iota is 1 at
\* GREEN_HEART_BEAT
GUEST_HEART_BEAT_STATUS == "guestHeartbeatStatus"

GREEN_HEART_BEAT == 2

YELLOW_HEART_BEAT == 4

GRAY_HEART_BEAT == 8

RED_HEART_BEAT == 16

\* the values of types.ManagedEntityStatus
ManagedEntityStatuses == {"gray", "green", "yellow", "red"}

\* a nil property value
NilVal == ""

\* status & bit # 0, for a bit that is a power of two
BitSet(status, bit) == (status \div bit) % 2 = 1

\* the body of the loop of the callback for the change c
changeMatches_AnyValue(status, c) ==
    c.Name = GUEST_HEART_BEAT_STATUS

changeMatches(status, c) ==
    /\ c.Name = GUEST_HEART_BEAT_STATUS
    /\ c.Val # NilVal
    /\ \/ BitSet(status, GREEN_HEART_BEAT) /\ c.Val = "green"
       \/ BitSet(status, GRAY_HEART_BEAT) /\ c.Val = "gray"
       \/ BitSet(status, YELLOW_HEART_BEAT) /\ c.Val = "yellow"
       \/ BitSet(status, RED_HEART_BEAT) /\ c.Val = "red"

\* the callback waitForGuestStatus hands to property.Wait
statusReached(status, changes) ==
    \E i \in 1..Len(changes) : changeMatches(status, changes[i])

\* the property changes an update can carry
PropertyChanges ==
    [Name : {GUEST_HEART_BEAT_STATUS}, Val : ManagedEntityStatuses \cup {NilVal}]
        \cup {[Name |-> "guest.toolsRunningStatus", Val |-> "green"]}

Updates == SeqsUpTo(PropertyChanges, MaxChanges) \ {<< >>}

\* the masks the waits are called with, the empty mask and a stray bit
Masks == {0, 1,
          GREEN_HEART_BEAT, GRAY_HEART_BEAT,
          GREEN_HEART_BEAT + YELLOW_HEART_BEAT,
          GRAY_HEART_BEAT + RED_HEART_BEAT,
          GREEN_HEART_BEAT + YELLOW_HEART_BEAT + GRAY_HEART_BEAT + RED_HEART_BEAT}

\* the positions at which a wait is in progress
WaitLabels == {"wait", "reset.waitDown", "reset.waitUp", "restart.waitGray",
               "restart.waitGreen"}

\* the mask of the wait at a position
WaitStatus(label) ==
    CASE label = "wait"              -> vm.status
      [] label = "reset.waitDown"    -> GRAY_HEART_BEAT + RED_HEART_BEAT
      [] label = "reset.waitUp"      -> GREEN_HEART_BEAT + YELLOW_HEART_BEAT
      [] label = "restart.waitGray"  -> GRAY_HEART_BEAT
      [] label = "restart.waitGreen" -> GREEN_HEART_BEAT + YELLOW_HEART_BEAT

\* whether the wait at a position is called with a timeout
WaitHasTimeout(label) ==
    CASE label = "wait" -> vm.timeout
      [] label \in {"reset.waitDown", "reset.waitUp"} -> FALSE
      [] label \in {"restart.waitGray", "restart.waitGreen"} -> TRUE

\* vm.op is the operation called, for waitForGuestStatus with vm.status and
\* vm.timeout; backend.heartbeat is the guest's heartbeat status and
\* backend.toolsRunning the tools status; local.begun tells that the wait in
\* progress got its first update, local.last is the last update delivered,
\* local.waits lists the waits that ended with their mask, error and last
\* update
InitHeartbeat ==
    /\ vm \in [op : {"waitForGuestStatus", "reset", "restart"},
               status : Masks, timeout : BOOLEAN]
    /\ vm.op # "waitForGuestStatus" => vm.status = 0 /\ vm.timeout = FALSE
    /\ backend \in [heartbeat : ManagedEntityStatuses \cup {NilVal},
                    toolsRunning : BOOLEAN]
    /\ vm.op # "reset" => backend.toolsRunning = TRUE
    /\ pc = IF vm.op = "waitForGuestStatus" THEN "wait" ELSE vm.op
    /\ local = [trace |-> << >>, failedAt |-> "", outcome |-> [t \in {"Reset"} |-> ""],
                toolsRunning |-> "unread",
                begun |-> FALSE, last |-> << >>, waits |-> << >>]
    /\ ret = NoReturn

\* the heartbeat value an update leaves current
HeartbeatAfter(update, before) ==
    LET S == {i \in 1..Len(update) : update[i].Name = GUEST_HEART_BEAT_STATUS}
    IN  IF S = {} THEN before
        ELSE update[CHOOSE i \in S : \A j \in S : j <= i].Val

afterWait_GrayErrorFails(label, err) ==
    CASE label = "wait" -> [next |-> "done", ret |-> err]
      [] label = "reset.waitDown" ->
            IF err # Nil
            THEN [next |-> "done", ret |-> Fault("error wating for vm to reset")]
            ELSE [next |-> "reset.waitUp", ret |-> NoReturn]
      [] label = "reset.waitUp" ->
            [next |-> "done",
             ret  |-> IF err # Nil THEN Fault("error wating for vm to reset") ELSE Nil]
      [] label = "restart.waitGray" ->
            IF err # Nil
            THEN [next |-> "done", ret |-> Fault("error wating for vm to reboot")]
            ELSE [next |-> "restart.waitGreen", ret |-> NoReturn]
      [] label = "restart.waitGreen" ->
            [next |-> "done",
             ret  |-> IF err # Nil THEN Fault("error wating for vm to reboot") ELSE Nil]

\* what the caller of the wait at a position does with its error: where it
\* goes on and what it has returned by then
afterWait(label, err) ==
    CASE label = "wait" -> [next |-> "done", ret |-> err]
      [] label = "reset.waitDown" ->
            IF err # Nil
            THEN [next |-> "done", ret |-> Fault("error wating for vm to reset")]
            ELSE [next |-> "reset.waitUp", ret |-> NoReturn]
      [] label = "reset.waitUp" ->
            [next |-> "done",
             ret  |-> IF err # Nil THEN Fault("error wating for vm to reset") ELSE Nil]
      [] label = "restart.waitGray" ->
            [next |-> "restart.waitGreen", ret |-> NoReturn]
      [] label = "restart.waitGreen" ->
            [next |-> "done",
             ret  |-> IF err # Nil THEN Fault("error wating for vm to reboot") ELSE Nil]

\* the wait at pc ended with err after the update
EndWait(err, update) ==
    /\ local' = [local EXCEPT !.begun = FALSE, !.last = << >>,
                              !.waits = Append(@, [status |-> WaitStatus(pc), err |-> err,
                                                   last |-> update])]
    /\ pc' = afterWait(pc, err).next
    /\ ret' = afterWait(pc, err).ret

\* property.Wait hands the update to the callback and returns nil when the
\* callback returns true
Deliver(update) ==
    IF statusReached(WaitStatus(pc), update)
    THEN EndWait(Nil, update)
    ELSE /\ local' = [local EXCEPT !.begun = TRUE, !.last = update]
         /\ UNCHANGED <<pc, ret>>

\* the first update of a wait reports the current value
WaitFirstUpdate ==
    /\ pc \in WaitLabels /\ ~local.begun
    /\ Deliver(<< [Name |-> GUEST_HEART_BEAT_STATUS, Val |-> backend.heartbeat] >>)
    /\ UNCHANGED <<vm, backend>>

\* a later update reports changes
WaitUpdate ==
    /\ pc \in WaitLabels /\ local.begun
    /\ \E update \in Updates :
          /\ backend' = [backend EXCEPT !.heartbeat = HeartbeatAfter(update, @)]
          /\ Deliver(update)
    /\ UNCHANGED vm

\* the timeout of the wait's context passes
WaitTimeout ==
    /\ pc \in WaitLabels /\ WaitHasTimeout(pc)
    /\ EndWait(Fault("context deadline exceeded"), local.last)
    /\ UNCHANGED <<vm, backend>>

\* property.Wait fails for another reason
WaitError ==
    /\ pc \in WaitLabels
    /\ EndWait(Fault("property collector failed"), local.last)
    /\ UNCHANGED <<vm, backend>>

\* the guest's heartbeat changes while no wait is subscribed
GuestHeartbeatChanges ==
    /\ pc # "done" /\ ~local.begun
    /\ \E s \in ManagedEntityStatuses \cup {NilVal} :
          s # backend.heartbeat /\ backend' = [backend EXCEPT !.heartbeat = s]
    /\ UNCHANGED <<vm, pc, local, ret>>

ResetFindVM ==
    /\ pc = "reset"
    /\ \/ local' = Called("findVM") /\ pc' = "reset.IsToolsRunning" /\ UNCHANGED ret
       \/ Fail("findVM", ErrorObjectNotFound)
    /\ UNCHANGED <<vm, backend>>

\* vmo.IsToolsRunning
ResetIsToolsRunning ==
    /\ pc = "reset.IsToolsRunning"
    /\ \/ /\ local' = [Called("IsToolsRunning") EXCEPT !.toolsRunning =
                          IF backend.toolsRunning THEN "running" ELSE "notRunning"]
          /\ pc' = "reset.Reset" /\ UNCHANGED ret
       \/ Fail("IsToolsRunning", Fault("Error checking status of tools"))
    /\ UNCHANGED <<vm, backend>>

\* vmo.Reset
ResetSubmit ==
    /\ pc = "reset.Reset"
    /\ \/ local' = Called("Reset") /\ pc' = "reset.wait" /\ UNCHANGED ret
       \/ Fail("Reset", Fault("error creating a reset task on the vm"))
    /\ UNCHANGED <<vm, backend>>

ResetWait_AlwaysWaits ==
    /\ pc = "reset.wait"
    /\ \E o \in TaskOutcomes :
          CASE o = "waitError" ->
                  FailWait("Reset", "Reset.wait", o, Fault("error waiting for reset task"))
            [] o = "fault" ->
                  FailWait("Reset", "Reset.wait", o, Fault("reset task returned an error"))
            [] o = "ok" ->
                  /\ local' = Waited("Reset", "Reset.wait", o)
                  /\ pc' = "reset.waitUp" /\ UNCHANGED ret
    /\ UNCHANGED <<vm, backend>>

\* resetTask.WaitForResult, the test of tInfo.Error and of toolsRunning; the
\* tools and the heartbeat may have changed while the task ran
ResetWait ==
    /\ pc = "reset.wait"
    /\ \E o \in TaskOutcomes :
          CASE o = "waitError" ->
                  FailWait("Reset", "Reset.wait", o, Fault("error waiting for reset task"))
            [] o = "fault" ->
                  FailWait("Reset", "Reset.wait", o, Fault("reset task returned an error"))
            [] o = "ok" ->
                  /\ local' = Waited("Reset", "Reset.wait", o)
                  /\ Continue(IF local.toolsRunning = "running"
                              THEN "reset.waitDown" ELSE "done")
    /\ UNCHANGED <<vm, backend>>

RestartFindVM ==
    /\ pc = "restart"
    /\ \/ local' = Called("findVM") /\ pc' = "restart.RebootGuest" /\ UNCHANGED ret
       \/ Fail("findVM", ErrorObjectNotFound)
    /\ UNCHANGED <<vm, backend>>

\* vmo.RebootGuest
RestartRebootGuest ==
    /\ pc = "restart.RebootGuest"
    /\ \/ local' = Called("RebootGuest") /\ pc' = "restart.waitGray" /\ UNCHANGED ret
       \/ Fail("RebootGuest", Fault("error initiating reboot on the vm"))
    /\ UNCHANGED <<vm, backend>>

NextHeartbeat ==
    \/ WaitFirstUpdate
    \/ WaitUpdate
    \/ WaitTimeout
    \/ WaitError
    \/ GuestHeartbeatChanges
    \/ ResetFindVM
    \/ ResetIsToolsRunning
    \/ ResetSubmit
    \/ ResetWait
    \/ RestartFindVM
    \/ RestartRebootGuest

SpecHeartbeat == InitHeartbeat /\ [][NextHeartbeat]_vars

\* the status bit of a heartbeat value
BitOf(val) ==
    CASE val = "green"  -> GREEN_HEART_BEAT
      [] val = "yellow" -> YELLOW_HEART_BEAT
      [] val = "gray"   -> GRAY_HEART_BEAT
      [] val = "red"    -> RED_HEART_BEAT

\* the heartbeat values an update reports
Reported(update) ==
    {update[i].Val : i \in {j \in 1..Len(update) :
                               /\ update[j].Name = GUEST_HEART_BEAT_STATUS
                               /\ update[j].Val # NilVal}}

\* the heartbeat values of a mask: those whose bit is among the mask's bits
RECURSIVE BitsOf(_, _)
BitsOf(status, bit) ==
    IF bit > status THEN {}
    ELSE (IF (status \div bit) % 2 = 1 THEN {bit} ELSE {}) \cup BitsOf(status, 2 * bit)

InMask(status) == {v \in ManagedEntityStatuses : BitOf(v) \in BitsOf(status, 1)}

\* C20: waitForGuestStatus completes successfully as soon as a reported
\* heartbeat value, the one current when the wait begins included, has its
\* bit in the caller's mask, and never on a nil value, a change of another
\* property or a status outside the mask; the four status bits are pairwise
\* distinct, so the empty mask matches nothing.
C20_WaitMatchesMaskOnly ==
    /\ Cardinality({BitOf(v) : v \in ManagedEntityStatuses}) = 4
    /\ \A v \in ManagedEntityStatuses : BitOf(v) # 0
    /\ \A i \in 1..Len(local.waits) :
          local.waits[i].err = Nil
             <=> Reported(local.waits[i].last) \cap InMask(local.waits[i].status) # {}
    /\ (pc \in WaitLabels /\ local.begun)
          => Reported(local.last) \cap InMask(WaitStatus(pc)) = {}
    /\ (vm.op = "waitForGuestStatus" /\ vm.status = 0 /\ pc = "done") => ret # Nil

\* a wait for green or yellow that ended on an update carrying a change of
\* another property and then yellow
C20_Witness ==
    /\ vm.op = "waitForGuestStatus" /\ pc = "done" /\ ret = Nil
    /\ vm.status = GREEN_HEART_BEAT + YELLOW_HEART_BEAT
    /\ Len(local.waits[1].last) = 2
    /\ local.waits[1].last[1].Name # GUEST_HEART_BEAT_STATUS
    /\ local.waits[1].last[2].Val = "yellow"

\* a wait that ended on the value current when it began
C20_WitnessCurrent ==
    /\ vm.op = "waitForGuestStatus" /\ pc = "done" /\ ret = Nil
    /\ vm.status = GRAY_HEART_BEAT
    /\ local.waits[1].last = << [Name |-> GUEST_HEART_BEAT_STATUS, Val |-> "gray"] >>

GrayOrRed == {"gray", "red"}

GreenOrYellow == {"green", "yellow"}

\* C16: reset reads whether tools are running before it submits the reset
\* task; when they were running it returns success only after a gray-or-red
\* heartbeat and then a green-or-yellow one were observed, in that order,
\* after the task completed; when they were not it returns as soon as the
\* task completes, with no heartbeat wait.
C16_ResetConfirmsCycle ==
    vm.op = "reset" =>
        /\ Precedes("IsToolsRunning", "Reset")
        /\ (local.waits # << >> \/ pc \in WaitLabels) =>
              local.outcome["Reset"] = "ok" /\ local.toolsRunning = "running"
        /\ (pc = "done" /\ ret = Nil /\ local.toolsRunning = "running") =>
              /\ Len(local.waits) = 2
              /\ Reported(local.waits[1].last) \cap GrayOrRed # {}
              /\ Reported(local.waits[2].last) \cap GreenOrYellow # {}
        /\ (local.toolsRunning = "notRunning" /\ local.outcome["Reset"] = "ok") =>
              pc = "done" /\ ret = Nil /\ local.waits = << >>

\* tools were running: the heartbeat went red, then green
C16_Witness ==
    /\ vm.op = "reset" /\ pc = "done" /\ ret = Nil /\ local.toolsRunning = "running"
    /\ Reported(local.waits[1].last) = {"red"}
    /\ Reported(local.waits[2].last) = {"green"}

\* tools were not running: no wait
C16_WitnessNoTools ==
    /\ vm.op = "reset" /\ pc = "done" /\ ret = Nil /\ local.toolsRunning = "notRunning"
    /\ local.waits = << >>

\* C17: restart fails only when resolving the VM fails, the reboot request
\* fails, or the wait for green or yellow ends without that heartbeat; an
\* error of the gray wait, timeout or other, never makes it fail, and the
\* green-or-yellow wait starts only after the gray wait has ended.
C17_RestartGrayWaitBestEffort ==
    vm.op = "restart" =>
        /\ (pc = "done" /\ ret # Nil) =>
              \/ local.failedAt \in {"findVM", "RebootGuest"}
              \/ /\ Len(local.waits) = 2
                 /\ local.waits[2].err # Nil
                 /\ Reported(local.waits[2].last) \cap GreenOrYellow = {}
        /\ (pc = "done" /\ Len(local.waits) = 2 /\ local.waits[2].err = Nil) => ret = Nil
        /\ pc = "restart.waitGray" => local.waits = << >>
        /\ pc = "restart.waitGreen" =>
              Len(local.waits) = 1 /\ local.waits[1].status = GRAY_HEART_BEAT
        /\ Len(local.waits) = 2 =>
              /\ local.waits[1].status = GRAY_HEART_BEAT
              /\ local.waits[2].status = GREEN_HEART_BEAT + YELLOW_HEART_BEAT

\* the gray wait timed out and restart still returned nil
C17_Witness ==
    /\ vm.op = "restart" /\ pc = "done" /\ ret = Nil
    /\ local.waits[1].err = Fault("context deadline exceeded")

\* the green wait timed out
C17_WitnessTimeout ==
    /\ vm.op = "restart" /\ pc = "done" /\ IsError(ret)
    /\ Len(local.waits) = 2 /\ local.waits[1].err = Nil
    /\ local.waits[2].err = Fault("context deadline exceeded")

----------------------------------------------------------------------------
(* The scope of findVM's lookups, and Exists *)

MaxScopeObjs == 1    \* objects below the VM folder of the handle's datacenter

\* Exists, from what findVM returned
Exists_TrueOnError(found) ==
    IF found.err # Nil THEN [exists |-> TRUE, err |-> found.err]
    ELSE [exists |-> TRUE, err |-> Nil]

Exists(found) ==
    IF found.err # Nil
    THEN IF found.err = ErrorObjectNotFound
         THEN [exists |-> FALSE, err |-> Nil]
         ELSE [exists |-> FALSE, err |-> found.err]
    ELSE [exists |-> TRUE, err |-> Nil]

ScopePaths == {PathOfSegments(<<n>>) : n \in {<<"a">>, <<"v">>}}

\* backend.inv is the VM folder of the handle's datacenter; the VM ForeignVM
\* lives in the VM folder of another datacenter under backend.foreignName
InitFindScope ==
    /\ vm \in [Name : ScopePaths,
               Template : [Name : ScopePaths,
                           InstanceUuid : {"", "uuid-1", "uuid-9", "uuid-0"}],
               QuestionResponses : FindTables]
    /\ vm.Name = vm.Template.Name
    /\ \E inv \in Inventories(MaxScopeObjs, {"Folder", "VirtualMachine"},
                             {<<"a">>, <<"v">>}),
          fault \in {"none", "datacenter", "nodatacenter", "search", "retrieve"} :
          backend \in
             [inv : {[inv EXCEPT !.status =
                        [o \in DOMAIN inv.status |->
                            IF fault = "retrieve" /\ o # 0 THEN "fault" ELSE "ok"]]},
              fault : {fault},
              question : {Nil, [Id |-> "q1", Text |-> "The file is locked",
                                Choice |-> <<[Key |-> "0", Summary |-> "Retry"]>>]},
              answered : {<<>>},
              foreignName : {<<"a">>, <<"v">>}]
    /\ pc = "start"
    /\ local = <<>>
    /\ ret = NoReturn

ExistsCall ==
    /\ pc = "start"
    /\ \E searchFilter \in {getVMSearchFilter(vm.Name), getTempSearchFilter(vm.Template)},
          order \in RangeOrders(vm.QuestionResponses),
          failAt \in 0..Len(vm.QuestionResponses) :
          LET r == findVM(backend.inv, backend.fault, backend.question, searchFilter,
                          order, failAt) IN
          /\ backend' = [backend EXCEPT !.answered = r.submitted]
          /\ ret' = Exists(r)
          /\ local' = [searchFilter |-> searchFilter, found |-> r]
    /\ pc' = "done"
    /\ UNCHANGED vm

NextFindScope == FindVMByName \/ FindTemplate \/ FindVMByUuidInDC \/ ExistsCall

SpecFindScope == InitFindScope /\ [][NextFindScope]_vars

\* findVM was called and has returned
FindVMReturned == pc = "done" /\ "resolved" \in DOMAIN local

\* a VM of that path exists in the handle's datacenter, or in the other one
InHandleDatacenter(name) == VMsAtPath(backend.inv, splitPathToList(name)) # {}

InOtherDatacenter(name) == name = PathOfSegments(<<backend.foreignName>>)

\* C21: a template looked up by name (getTempSearchFilter with an empty
\* unique id) is found when it exists in any datacenter, not only in the
\* handle's, while a filter built by getVMSearchFilter is searched in the
\* VM folder of the handle's datacenter only.
C21_TemplateNameSearchedEverywhere ==
    (/\ FindVMReturned
     /\ backend.fault = "none"
     /\ local.searchFilter.InstanceUuid = "") =>
        LET name == local.searchFilter.Name IN
        /\ ~local.searchFilter.SearchInDC =>
              (local.resolved <=> InHandleDatacenter(name) \/ InOtherDatacenter(name))
        /\ local.searchFilter.SearchInDC =>
              (local.resolved <=> InHandleDatacenter(name))

\* the objects of the search index with a unique id, in the scope
IndexedInScope(uuid, inDC) ==
    {o \in Objs(backend.inv) \cup (IF inDC THEN {} ELSE {ForeignVM}) : UuidOf(o) = uuid}

\* C22: searchVmByUuid searches the handle's datacenter exactly when
\* SearchInDC is set and the whole inventory otherwise, so a unique id
\* present only in another datacenter gives NotFound under SearchInDC; a
\* unique id that resolves to nothing or to an object that is not a VM gives
\* NotFound as well.
C22_UuidScope ==
    (FindVMReturned /\ local.searchFilter.InstanceUuid # "") =>
        LET uuid  == local.searchFilter.InstanceUuid
            inDC  == local.searchFilter.SearchInDC
            found == IndexedInScope(uuid, inDC)
        IN  /\ local.resolved => ret.moVM \in found /\ IsVirtualMachine(backend.inv, ret.moVM)
            /\ (inDC /\ local.resolved) => ret.moVM # ForeignVM
            /\ ~inDC => ret.err \notin {Fault("datacenter")}
            /\ (backend.fault = "none" /\ ~inDC /\ uuid = UuidOf(ForeignVM)) =>
                  local.resolved /\ ret.moVM = ForeignVM
            /\ (/\ backend.fault \in {"none", "retrieve"}
                /\ \A o \in found : ~IsVirtualMachine(backend.inv, o)) =>
                  ret.moVM = NilRef /\ ret.err = ErrorObjectNotFound

\* the unique id of a VM of another datacenter, looked up within the
\* handle's: NotFound
C22_Witness ==
    /\ FindVMReturned
    /\ local.searchFilter.InstanceUuid = UuidOf(ForeignVM)
    /\ local.searchFilter.SearchInDC
    /\ ret.err = ErrorObjectNotFound

\* the same unique id looked up in the whole inventory
C22_WitnessGlobal ==
    /\ FindVMReturned /\ ~local.searchFilter.SearchInDC
    /\ local.resolved /\ ret.moVM = ForeignVM

\* a unique id that the index resolves to a folder
C22_WitnessNotVM ==
    /\ FindVMReturned /\ local.searchFilter.InstanceUuid = "uuid-1"
    /\ backend.fault = "none"
    /\ 1 \in Objs(backend.inv) /\ backend.inv.type[1] = "Folder"
    /\ ret.err = ErrorObjectNotFound

ExistsReturned == pc = "done" /\ "found" \in DOMAIN local

\* C23: Exists returns (false, nil) exactly when findVM fails with the typed
\* NotFound error, (false, err) for every other failure of findVM and
\* (true, nil) when findVM succeeds; never true together with an error.
C23_ExistsMapsNotFound ==
    ExistsReturned =>
        /\ ret = [exists |-> FALSE, err |-> Nil] <=> local.found.err = ErrorObjectNotFound
        /\ (local.found.err # Nil /\ local.found.err # ErrorObjectNotFound) =>
              ret = [exists |-> FALSE, err |-> local.found.err]
        /\ local.found.err = Nil => ret = [exists |-> TRUE, err |-> Nil]
        /\ ~(ret.exists /\ ret.err # Nil)

\* the VM is not in the datacenter: false, no error
C23_Witness ==
    /\ ExistsReturned /\ backend.fault = "none"
    /\ local.found.err = ErrorObjectNotFound
    /\ ret = [exists |-> FALSE, err |-> Nil]

\* findVM resolved the VM and answerQuestion failed: false with that error
C23_WitnessOtherError ==
    /\ ExistsReturned /\ local.found.resolved /\ local.found.err # Nil
    /\ ret.exists = FALSE /\ ret.err = local.found.err

----------------------------------------------------------------------------
(* Specification SpecResolve: resolveAnswerAndOptions on the choices of a   *)
(* question and the answer of a rule                                       *)

MaxChoices == 2    \* choices of a question

ChoiceInfos == SeqsUpTo([Key : {"0", "1"}, Summary : {"Retry", "RETRY", "Cancel", "1"}],
                        MaxChoices)

ConfiguredAnswers == {"Retry", "retry", "Cancel", "1", "Abort"}

InitResolve ==
    /\ vm \in [answer : ConfiguredAnswers]
    /\ backend \in [choiceInfo : ChoiceInfos]
    /\ pc = "start"
    /\ local = <<>>
    /\ ret = NoReturn

ResolveAnswerAndOptionsCall ==
    /\ pc = "start"
    /\ ret' = resolveAnswerAndOptions(backend.choiceInfo, vm.answer)
    /\ pc' = "done"
    /\ UNCHANGED <<vm, backend, local>>

NextResolve == ResolveAnswerAndOptionsCall

SpecResolve == InitResolve /\ [][NextResolve]_vars

\* the choices whose summary is the answer, letter case apart
ChoicesSummarised(answer) ==
    {k \in 1..Len(backend.choiceInfo) :
        \/ backend.choiceInfo[k].Summary = answer
        \/ {backend.choiceInfo[k].Summary, answer} \subseteq {"Retry", "RETRY", "retry"}}

\* C24: resolveAnswerAndOptions returns the key of a choice whose summary
\* equals the configured answer ignoring case, and the configured answer
\* unchanged when no summary matches; with the answer "Retry" and a choice
\* summarised "Retry" the result is that choice's key, not "Retry".
C24_ResolvesSummaryToKey ==
    pc = "done" =>
        /\ IF ChoicesSummarised(vm.answer) = {}
           THEN ret.resolvedAnswer = vm.answer
           ELSE \E k \in ChoicesSummarised(vm.answer) :
                    ret.resolvedAnswer = backend.choiceInfo[k].Key
        /\ (/\ vm.answer = "Retry"
            /\ \E k \in 1..Len(backend.choiceInfo) : backend.choiceInfo[k].Summary = "Retry") =>
              /\ ret.resolvedAnswer # "Retry"
              /\ \E k \in 1..Len(backend.choiceInfo) :
                    /\ ret.resolvedAnswer = backend.choiceInfo[k].Key
                    /\ backend.choiceInfo[k].Summary \in {"Retry", "RETRY"}

\* the answer "Retry" resolved to the key of the choice summarised "Retry"
C24_Witness ==
    /\ pc = "done" /\ vm.answer = "Retry"
    /\ backend.choiceInfo = <<[Key |-> "0", Summary |-> "Cancel"],
                              [Key |-> "1", Summary |-> "Retry"]>>
    /\ ret.resolvedAnswer = "1"

\* no summary matches: the answer comes back as configured
C24_WitnessLiteral ==
    /\ pc = "done" /\ vm.answer = "Abort" /\ Len(backend.choiceInfo) = MaxChoices
    /\ ret.resolvedAnswer = "Abort"

----------------------------------------------------------------------------
(* Specification SpecSplit: splitPathToList on any string of the characters *)
(* that matter to it                                                       *)

MaxPathLen == 4    \* characters of a path

PathChars == {"a", "/", "\\"}

InitSplit ==
    /\ vm \in [Name : SeqsUpTo(PathChars, MaxPathLen)]
    /\ backend = <<>>
    /\ pc = "start"
    /\ local = <<>>
    /\ ret = NoReturn

SplitPathToListCall ==
    /\ pc = "start"
    /\ ret' = splitPathToList(vm.Name)
    /\ pc' = "done"
    /\ UNCHANGED <<vm, backend, local>>

NextSplit == SplitPathToListCall

SpecSplit == InitSplit /\ [][NextSplit]_vars

\* s with every "/" written as \/
RECURSIVE Escaped(_)
Escaped(s) ==
    IF s = <<>> THEN <<>>
    ELSE IF Head(s) = "/" THEN <<"\\", "/">> \o Escaped(Tail(s))
    ELSE <<Head(s)>> \o Escaped(Tail(s))

\* the segments from the k-th on, escaped and joined with "/"
RECURSIVE Rejoined(_, _)
Rejoined(segs, k) ==
    IF k > Len(segs) THEN <<>>
    ELSE IF k = Len(segs) THEN Escaped(segs[k])
    ELSE Escaped(segs[k]) \o <<"/">> \o Rejoined(segs, k+1)

\* C25: for every path, the segments splitPathToList returns, with each "/"
\* inside a segment written as \/ and joined with "/", are the path again.
C25_SplitRejoinRoundTrip ==
    pc = "done" => Rejoined(ret, 1) = vm.Name

\* a path with an escaped separator inside a name and a plain one after it
C25_Witness ==
    /\ pc = "done"
    /\ vm.Name = <<"\\", "/", "/", "a">>
    /\ ret = << <<"/">>, <<"a">> >>

HasEscapedSeparator(s) == \E i \in 1..(Len(s)-1) : s[i] = "\\" /\ s[i+1] = "/"

Separators(s) == {i \in 1..Len(s) : s[i] = "/"}

\* the position of the k-th "/" of s; 0 for k = 0, Len(s)+1 past the last
Separator(s, k) ==
    IF k = 0 THEN 0
    ELSE IF k > Cardinality(Separators(s)) THEN Len(s) + 1
    ELSE CHOOSE i \in Separators(s) : Cardinality({j \in Separators(s) : j < i}) = k - 1

\* s cut at every "/"
CutAtSeparators(s) ==
    [k \in 1..(Cardinality(Separators(s)) + 1) |->
        SubSeq(s, Separator(s, k-1) + 1, Separator(s, k) - 1)]

\* C26: for a path without \/ splitPathToList returns the segments obtained
\* by cutting the string at every "/", empty segments included.
C26_PlainSplitWithoutEscapes ==
    (pc = "done" /\ ~HasEscapedSeparator(vm.Name)) => ret = CutAtSeparators(vm.Name)

\* leading, doubled and trailing separators give empty segments
C26_Witness ==
    /\ pc = "done"
    /\ vm.Name = <<"/", "a", "/", "/">>
    /\ ret = << <<>>, <<"a">>, <<>>, <<>> >>

----------------------------------------------------------------------------
(* Specification SpecProvision: cloneFromTemplate and uploadTemplate on a   *)
(* handle, step by step. local is the frame of the call: its arguments,    *)
(* the calls made so far, the handle as it was at the call (before) and    *)
(* what the steps resolved. A reference that is not set is "".             *)

\* util.ChooseRandomString(list): the values a draw can give, "" for an
\* empty list
ChooseRandomString(list) == IF list = << >> THEN {""} ELSE Range(list)

\* createTemplateName: "<t>-<ds>"; a name is held as the list of its parts
createTemplateName(t, ds) == Append(t, ds)

\* IsClusterDrsEnabled: drs is what the cluster's configuration holds
IsClusterDrsEnabled(drs) ==
    CASE drs = "fault"    -> [enabled |-> FALSE, err |-> ErrorObjectNotFound]
      [] drs = "unset"    -> [enabled |-> FALSE,
                              err |-> Fault("error fetching cluster config details")]
      [] drs = "enabled"  -> [enabled |-> TRUE, err |-> Nil]
      [] drs = "disabled" -> [enabled |-> FALSE, err |-> Nil]

HostSystemOf(value) == CHOOSE h \in HostSystems : h.Value = value

\* what resolving the destination gives: not found, a host, a cluster of two
ProvisionComputeResources ==
    {[mo |-> Nil, err |-> ErrorObjectNotFound],
     [mo |-> [Host |-> <<HostSystemOf("host-1")>>, ResourcePool |-> "resgroup-1",
              Network |-> << >>], err |-> Nil],
     [mo |-> [Host |-> <<HostSystemOf("host-1"), HostSystemOf("host-2")>>,
              ResourcePool |-> "resgroup-1", Network |-> << >>], err |-> Nil]}

\* the hardware of the template the clone defaults its flavor to
TemplateHardware == [NumCPU |-> 4, MemoryMB |-> 2048]

NewFrame(v, usableDatastores, selectedDatastore) ==
    [trace |-> << >>, failedAt |-> "",
     outcome |-> [t \in {"Clone", "CreateSnapshot"} |-> ""],
     before |-> v, usableDatastores |-> usableDatastores,
     selectedDatastore |-> selectedDatastore, template |-> << >>,
     dsMor |-> "", l |-> ZeroLocation, relocateSpec |-> Nil, cisp |-> Nil]

InitProvision ==
    /\ vm \in [op : {"cloneFromTemplate", "uploadTemplate"},
               Destination : [DestinationType : {"host", "cluster", "resource-pool"},
                              HostSystem : {"", "h1"}],
               Networks : {<< >>},
               datastore : {""},
               Template : [Name : {<<"tmpl">>}],
               UseLocalTemplates : BOOLEAN,
               UseLinkedClones : BOOLEAN,
               OvaPathUrl : {"", "http://ova"},
               OvfPath : {"/ovf"},
               Flavor : {[NumCPUs |-> 0, MemoryMB |-> 0], [NumCPUs |-> 2, MemoryMB |-> 0],
                         [NumCPUs |-> 2, MemoryMB |-> 1024]},
               FixedDisks : {<< >>, <<[Size |-> 20]>>},
               Disks : SeqsUpTo({[Size |-> 10, DiskFile |-> ""]}, MaxNewDisks),
               SkipIPWait : BOOLEAN,
               NetworkSetting : [Ip : {"", "10.0.0.5"},
                                 SubnetMask : {"", "255.255.255.0"}]]
    /\ vm.Destination.DestinationType # "cluster" => vm.Destination.HostSystem = ""
    /\ vm.op = "cloneFromTemplate" => vm.OvaPathUrl = ""
    /\ vm.op = "uploadTemplate" =>
          /\ vm.Flavor.NumCPUs = 0 /\ vm.FixedDisks = << >> /\ vm.Disks = << >>
          /\ ~vm.SkipIPWait
          /\ vm.NetworkSetting.Ip = "" /\ vm.NetworkSetting.SubnetMask = ""
    /\ backend \in [cr : ProvisionComputeResources,
                    rp : {[Value |-> "resgroup-9", err |-> Nil]},
                    owner : {[Network |-> << >>, err |-> Nil]},
                    drs : {"enabled", "disabled", "unset", "fault"}]
    /\ (backend.cr.err = Nil /\ vm.Destination.DestinationType # "resource-pool") =>
          (Len(backend.cr.mo.Host) = 1 <=> vm.Destination.DestinationType = "host")
    /\ (vm.Destination.DestinationType # "cluster" \/ vm.op = "uploadTemplate") =>
          backend.drs = "disabled"
    /\ pc = vm.op
    /\ \E usableDatastores \in {<< >>, <<"ds1">>, <<"ds1", "ds2">>},
          selectedDatastore \in {"ds1", "ds2"} :
          /\ vm.op = "cloneFromTemplate" => selectedDatastore = "ds1"
          /\ vm.op = "uploadTemplate" => usableDatastores = << >>
          /\ local = NewFrame(vm, usableDatastores, selectedDatastore)
    /\ ret = NoReturn

\* a step that made the call and goes on
Step(event, label) ==
    /\ local' = Called(event)
    /\ pc' = label
    /\ UNCHANGED ret

\* cloneFromTemplate: the datastore is drawn and resolved, the template name
\* rewritten for local templates
CloneChooseDatastore ==
    /\ pc = "cloneFromTemplate"
    /\ \E ds \in ChooseRandomString(local.usableDatastores) :
          \/ /\ ds # ""
             /\ vm' = [vm EXCEPT !.datastore = ds]
             /\ Fail("findDatastore", ErrorObjectNotFound)
          \/ /\ vm' = [vm EXCEPT !.datastore = ds,
                                 !.Template.Name = IF vm.UseLocalTemplates
                                                   THEN createTemplateName(@, ds) ELSE @]
             /\ local' = [(IF ds # "" THEN Called("findDatastore") ELSE local)
                             EXCEPT !.dsMor = ds]
             /\ pc' = "clone.findTemplate"
             /\ UNCHANGED ret
    /\ UNCHANGED backend

\* findVM(vm, getTempSearchFilter(vm.Template))
CloneFindTemplate ==
    /\ pc = "clone.findTemplate"
    /\ \/ Step("findTemplate", "clone.getVMLocation")
       \/ Fail("findTemplate", Fault("error retrieving template"))
    /\ UNCHANGED <<vm, backend>>

CloneGetVMLocation ==
    /\ pc = "clone.getVMLocation"
    /\ \E r \in getVMLocation(vm, backend.cr, backend.rp, backend.owner) :
          IF r.err # Nil THEN Fail("getVMLocation", r.err)
          ELSE /\ local' = [Called("getVMLocation") EXCEPT !.l = r.l]
               /\ pc' = "clone.relocateSpec"
               /\ UNCHANGED ret
    /\ UNCHANGED <<vm, backend>>

\* the relocation spec of a full clone
relocateSpecOf(v, l, dsMor, isDrsEnabled) ==
    [Pool         |-> l.ResourcePool,
     Host         |-> IF /\ v.Destination.DestinationType = "cluster"
                         /\ (v.Destination.HostSystem # "" \/ ~isDrsEnabled)
                      THEN l.Host ELSE "",
     Datastore    |-> dsMor,
     DiskMoveType |-> ""]

CloneRelocateSpec ==
    /\ pc = "clone.relocateSpec"
    /\ LET drs == IF vm.Destination.DestinationType = "cluster"
                  THEN IsClusterDrsEnabled(backend.drs)
                  ELSE [enabled |-> FALSE, err |-> Nil]
       IN  IF drs.err # Nil THEN Fail("IsClusterDrsEnabled", drs.err)
           ELSE /\ local' = [local EXCEPT !.relocateSpec =
                                relocateSpecOf(vm, local.l, local.dsMor, drs.enabled)]
                /\ pc' = "clone.config"
                /\ UNCHANGED ret
    /\ UNCHANGED <<vm, backend>>

\* reconfigureNetworks, the flavor defaults and resizeAndDeleteVols
CloneConfigSpec ==
    /\ pc = "clone.config"
    /\ \/ Fail("reconfigureNetworks", Fault("reconfigureNetworks")) /\ UNCHANGED vm
       \/ /\ vm' = [vm EXCEPT
                       !.Flavor.NumCPUs  = IF @ <= 0 THEN TemplateHardware.NumCPU ELSE @,
                       !.Flavor.MemoryMB = IF @ <= 0 THEN TemplateHardware.MemoryMB ELSE @]
          /\ \/ Step("reconfigureNetworks", "clone.customSpec")
             \/ /\ Len(vm.FixedDisks) # 0
                /\ Fail("resizeAndDeleteVols", Fault("resizeAndDeleteVols"))
    /\ UNCHANGED backend

\* checkAndCreateCustomSpec and GetCustomizationSpec under the mutex
CloneCustomSpec ==
    /\ pc = "clone.customSpec"
    /\ \/ Step("customSpec", "clone.Clone")
       \/ Fail("checkAndCreateCustomSpec", Fault("Error creating custom spec"))
       \/ Fail("GetCustomizationSpec", Fault("Error retrieving custom spec"))
    /\ UNCHANGED <<vm, backend>>

\* updateCustomSpec: nil when the address or the mask is empty, else the
\* stored spec with the fixed address and the mask set on its first adapter
updateCustomSpec(v) ==
    IF v.NetworkSetting.Ip = "" \/ v.NetworkSetting.SubnetMask = ""
    THEN Nil
    ELSE [kind |-> "customSpec",
          NicSettingMap |-> <<[Ip |-> v.NetworkSetting.Ip,
                               SubnetMask |-> v.NetworkSetting.SubnetMask]>>]

\* the clone spec handed to vmObj.Clone: the one of a linked clone is built
\* anew without the Customization field, which is nil then
cloneSpec(v, l, dsMor, relocateSpec) ==
    IF v.UseLinkedClones
    THEN [Location |-> [Pool         |-> l.ResourcePool,
                        Host         |-> IF v.Destination.HostSystem # ""
                                         THEN l.Host ELSE "",
                        Datastore    |-> dsMor,
                        DiskMoveType |-> "createNewChildDiskBacking"],
          Snapshot |-> TRUE,
          Customization |-> Nil]
    ELSE [Location |-> relocateSpec, Snapshot |-> FALSE,
          Customization |-> updateCustomSpec(v)]

\* vmObj.Clone, t.WaitForResult and the test of tInfo.Error
CloneRun ==
    /\ pc = "clone.Clone"
    /\ LET cisp  == cloneSpec(vm, local.l, local.dsMor, local.relocateSpec)
           frame == [Called("Clone") EXCEPT !.cisp = cisp]
       IN  \/ /\ local' = [frame EXCEPT !.failedAt = "Clone"]
              /\ pc' = "done"
              /\ ret' = Fault("error cloning vm from template")
           \/ \E o \in TaskOutcomes :
                 /\ local' = [frame EXCEPT !.outcome["Clone"] = o,
                                           !.failedAt = IF o = "ok" THEN @ ELSE "Clone.wait"]
                 /\ pc' = IF o = "ok" THEN "clone.findVM" ELSE "done"
                 /\ ret' = CASE o = "ok" -> ret
                             [] o = "waitError" ->
                                  Fault("error waiting for clone task to finish")
                             [] o = "fault" -> Fault("clone task finished with error")
    /\ UNCHANGED <<vm, backend>>

\* findVM(vm, getVMSearchFilter(vm.Name))
CloneResolve ==
    /\ pc = "clone.findVM"
    /\ \/ Step("findVM", IF Len(vm.Disks) > 0 THEN "clone.reconfigureVM" ELSE "clone.start")
       \/ Fail("findVM", Fault("failed to retrieve cloned VM"))
    /\ UNCHANGED <<vm, backend>>

DiskFileOf(index) == IF index = 1 THEN "disk-1.vmdk" ELSE "disk-n.vmdk"

\* reconfigureVM: the datastore is drawn from those of the VM when none is
\* cached; the disks are added in order and the failAt-th fails (none when
\* failAt is past the last)
CloneReconfigure ==
    /\ pc = "clone.reconfigureVM"
    /\ \/ Fail("reconfigureVM", ErrorObjectNotFound) /\ UNCHANGED vm
       \/ /\ vm.datastore = ""
          /\ Fail("reconfigureVM", Fault("Error retrieving datastores used by vm"))
          /\ UNCHANGED vm
       \/ \E ds \in ChooseRandomString(<<"ds1">>), failAt \in 1..(Len(vm.Disks) + 1) :
             /\ vm' = [vm EXCEPT
                          !.datastore = IF @ = "" THEN ds ELSE @,
                          !.Disks = [i \in 1..Len(vm.Disks) |->
                                        IF i < failAt
                                        THEN [vm.Disks[i] EXCEPT !.DiskFile = DiskFileOf(i)]
                                        ELSE vm.Disks[i]]]
             /\ IF failAt <= Len(vm.Disks)
                THEN Fail("reconfigureVM", Fault("Failed to add device"))
                ELSE Step("reconfigureVM", "clone.start")
    /\ UNCHANGED backend

\* start, and waitForIP unless SkipIPWait
ClonePowerOn ==
    /\ pc = "clone.start"
    /\ \/ Fail("start", Fault("error creating a poweron task on the vm"))
       \/ ~vm.SkipIPWait /\ Fail("waitForIP", Fault("failed to wait for VM to get ips"))
       \/ local' = Called("start") /\ Continue("done")
    /\ UNCHANGED <<vm, backend>>

\* uploadTemplate: the template name and the datastore are stored, then the
\* temporary directory is made and the ovf downloaded and parsed
UploadPrepare ==
    /\ pc = "uploadTemplate"
    /\ LET template == IF vm.UseLocalTemplates
                       THEN createTemplateName(vm.Template.Name, local.selectedDatastore)
                       ELSE << >>
           v == [vm EXCEPT !.Template.Name = IF vm.UseLocalTemplates THEN template ELSE @,
                           !.datastore = local.selectedDatastore]
       IN  \/ vm' = v /\ Fail("TempDir", Fault("TempDir"))
           \/ /\ vm.OvaPathUrl # ""
              /\ vm' = [v EXCEPT !.OvfPath = ""]
              /\ Fail("downloadOva", Fault("can't download ova file from url"))
           \/ /\ vm' = [v EXCEPT !.OvfPath = IF vm.OvaPathUrl # "" THEN "/tmp/ovf" ELSE @]
              /\ \/ Fail("parseOvf", Fault("Failed to open the ovf file"))
                 \/ /\ local' = [Called("parseOvf") EXCEPT !.template = template]
                    /\ pc' = "upload.location"
                    /\ UNCHANGED ret
    /\ UNCHANGED backend

\* findDatastore and getVMLocation
UploadPlacement ==
    /\ pc = "upload.location"
    /\ \/ Fail("findDatastore", ErrorObjectNotFound)
       \/ \E r \in getVMLocation(vm, backend.cr, backend.rp, backend.owner) :
             IF r.err # Nil THEN Fail("getVMLocation", r.err)
             ELSE /\ local' = [Called("getVMLocation") EXCEPT
                                  !.l = r.l, !.dsMor = local.selectedDatastore]
                  /\ pc' = "upload.CreateImportSpec"
                  /\ UNCHANGED ret
    /\ UNCHANGED <<vm, backend>>

\* ovfManager.CreateImportSpec and the test of specResult.Error
UploadCreateImportSpec ==
    /\ pc = "upload.CreateImportSpec"
    /\ \/ Step("CreateImportSpec", "upload.ImportVApp")
       \/ Fail("CreateImportSpec", Fault("failed to create an import spec for the VM"))
       \/ Fail("CreateImportSpec", Fault("errors returned from the ovf manager api"))
    /\ UNCHANGED <<vm, backend>>

\* rpo.ImportVApp for the lease, then uploadOvf
UploadImport ==
    /\ pc = "upload.ImportVApp"
    /\ \/ Fail("ImportVApp", Fault("error getting an nfc lease"))
       \/ /\ local' = [Called("ImportVApp") EXCEPT
                          !.trace = Append(@, "uploadOvf"), !.failedAt = "uploadOvf"]
          /\ pc' = "done"
          /\ ret' = Fault("error uploading the ovf template")
       \/ /\ local' = [Called("ImportVApp") EXCEPT !.trace = Append(@, "uploadOvf")]
          /\ pc' = "upload.findVM"
          /\ UNCHANGED ret
    /\ UNCHANGED <<vm, backend>>

UploadFindVM_SkipsFinalStep ==
    /\ pc = "upload.findVM"
    /\ \/ local' = Called("findVM") /\ Continue("done")
       \/ Fail("findVM", Fault("error getting the uploaded VM"))
    /\ UNCHANGED <<vm, backend>>

\* findVM(vm, getTempSearchFilter(vm.Template)) of the uploaded VM
UploadFindVM ==
    /\ pc = "upload.findVM"
    /\ \/ Step("findVM", IF vm.UseLinkedClones THEN "upload.CreateSnapshot"
                         ELSE "upload.MarkAsTemplate")
       \/ Fail("findVM", Fault("error getting the uploaded VM"))
    /\ UNCHANGED <<vm, backend>>

\* vmo.CreateSnapshot
UploadCreateSnapshot ==
    /\ pc = "upload.CreateSnapshot"
    /\ \/ Step("CreateSnapshot", "upload.CreateSnapshot.wait")
       \/ Fail("CreateSnapshot", Fault("error creating snapshot of the vm"))
    /\ UNCHANGED <<vm, backend>>

\* snapshotTask.WaitForResult and the test of tInfo.Error
UploadWaitSnapshot ==
    /\ pc = "upload.CreateSnapshot.wait"
    /\ \E o \in TaskOutcomes :
          CASE o = "waitError" ->
                  FailWait("CreateSnapshot", "CreateSnapshot.wait", o,
                           Fault("error waiting for snapshot to finish"))
            [] o = "fault" ->
                  FailWait("CreateSnapshot", "CreateSnapshot.wait", o,
                           Fault("snapshot task returned an error"))
            [] o = "ok" ->
                  /\ local' = Waited("CreateSnapshot", "CreateSnapshot.wait", o)
                  /\ Continue("done")
    /\ UNCHANGED <<vm, backend>>

\* vmo.MarkAsTemplate
UploadMarkAsTemplate ==
    /\ pc = "upload.MarkAsTemplate"
    /\ \/ local' = Called("MarkAsTemplate") /\ Continue("done")
       \/ Fail("MarkAsTemplate", Fault("error converting the uploaded VM to a template"))
    /\ UNCHANGED <<vm, backend>>

NextProvision ==
    \/ CloneChooseDatastore
    \/ CloneFindTemplate
    \/ CloneGetVMLocation
    \/ CloneRelocateSpec
    \/ CloneConfigSpec
    \/ CloneCustomSpec
    \/ CloneRun
    \/ CloneResolve
    \/ CloneReconfigure
    \/ ClonePowerOn
    \/ UploadPrepare
    \/ UploadPlacement
    \/ UploadCreateImportSpec
    \/ UploadImport
    \/ UploadFindVM
    \/ UploadCreateSnapshot
    \/ UploadWaitSnapshot
    \/ UploadMarkAsTemplate

SpecProvision == InitProvision /\ [][NextProvision]_vars


\* the call returned an error
ReturnedError == pc = "done" /\ IsError(ret)

\* C27: a cloneFromTemplate or uploadTemplate call that returns an error
\* leaves vm.datastore, vm.Template.Name, vm.Flavor and every
\* Disks[i].DiskFile as they were before the call.
C27_FailedCallLeavesHandle ==
    ReturnedError =>
        /\ vm.datastore = local.before.datastore
        /\ vm.Template.Name = local.before.Template.Name
        /\ vm.Flavor = local.before.Flavor
        /\ \A i \in 1..Len(vm.Disks) : vm.Disks[i].DiskFile = local.before.Disks[i].DiskFile

FinalActions == {"CreateSnapshot", "MarkAsTemplate"}

\* C28: a successful uploadTemplate ends with exactly one final action on
\* the uploaded VM, a snapshot created and waited for when UseLinkedClones
\* is set, MarkAsTemplate otherwise, never both, and only after the lease
\* upload finished and the VM was re-resolved; a failure of the import spec,
\* the lease, the upload or the re-resolution returns an error and performs
\* neither.
C28_UploadEndsWithOneFinalAction ==
    vm.op = "uploadTemplate" =>
        /\ ~(Occurs("CreateSnapshot") /\ Occurs("MarkAsTemplate"))
        /\ \A final \in FinalActions :
              /\ Cardinality(Positions(final)) <= 1
              /\ Occurs(final) =>
                    /\ Precedes("ImportVApp", final)
                    /\ Precedes("uploadOvf", final)
                    /\ Precedes("findVM", final)
                    /\ local.failedAt \notin {"CreateImportSpec", "ImportVApp",
                                              "uploadOvf", "findVM"}
        /\ (pc = "done" /\ ret = Nil) =>
              IF vm.UseLinkedClones
              THEN /\ Occurs("CreateSnapshot") /\ ~Occurs("MarkAsTemplate")
                   /\ Occurs("CreateSnapshot.wait")
                   /\ local.outcome["CreateSnapshot"] = "ok"
              ELSE Occurs("MarkAsTemplate") /\ ~Occurs("CreateSnapshot")
        /\ local.failedAt \in {"CreateImportSpec", "ImportVApp", "uploadOvf", "findVM"} =>
              /\ ReturnedError
              /\ \A final \in FinalActions : ~Occurs(final)

\* an upload for linked clones that succeeded: the snapshot was waited for
C28_Witness ==
    /\ vm.op = "uploadTemplate" /\ pc = "done" /\ ret = Nil
    /\ vm.UseLinkedClones
    /\ local.trace[Len(local.trace)] = "CreateSnapshot.wait"

\* an upload that succeeded by marking the VM as a template
C28_WitnessTemplate ==
    /\ vm.op = "uploadTemplate" /\ pc = "done" /\ ret = Nil
    /\ ~vm.UseLinkedClones
    /\ local.trace[Len(local.trace)] = "MarkAsTemplate"

\* the upload over the lease failed
C28_WitnessUploadFailed ==
    /\ vm.op = "uploadTemplate" /\ pc = "done"
    /\ local.failedAt = "uploadOvf" /\ IsError(ret)

\* the destinations for which the clone is to name the resolved host
HostIsToBeTargeted ==
    \/ vm.Destination.DestinationType = "host"
    \/ /\ vm.Destination.DestinationType = "cluster"
       /\ (backend.drs = "disabled" \/ vm.Destination.HostSystem # "")

\* C30: the relocation spec of the clone cloneFromTemplate submits always
\* targets the resolved resource pool, and targets the resolved host exactly
\* when the destination is a single host, a cluster with DRS disabled or a
\* cluster with an explicit host name; for a DRS-enabled cluster without a
\* host name no host is set.
C30_RelocationTargets ==
    (vm.op = "cloneFromTemplate" /\ Occurs("Clone")) =>
        /\ local.cisp.Location.Pool = local.l.ResourcePool
        /\ local.cisp.Location.Pool # ""
        /\ IF HostIsToBeTargeted
           THEN local.cisp.Location.Host = local.l.Host /\ local.l.Host # ""
           ELSE local.cisp.Location.Host = ""

----------------------------------------------------------------------------
(* Specification SpecArmTemplate: the variables of the Linux ARM template   *)
(* that give the data disks of the VM, evaluated on the deployment's       *)
(* parameters. A concat is held as the list of its parts.                  *)

\* variables.diskAttachment: the disks under the keys "true" and "false"
diskAttachment(parameters) ==
    [key \in {"true", "false"} |->
        IF key = "true"
        THEN [disks |-> << [name         |-> "datadisk1",
                            diskSizeGB   |-> parameters.disk_size,
                            lun          |-> 0,
                            vhd          |-> [uri |-> <<"http://", parameters.storage_account,
                                                        ".blob.core.windows.net/",
                                                        parameters.storage_container, "/",
                                                        parameters.disk_file>>],
                            createOption |-> "Empty"] >>]
        ELSE [disks |-> << >>]]

\* the template cannot be evaluated
TemplateError == Fault("InvalidTemplate")

disksSettings_AlwaysAttaches(parameters) == diskAttachment(parameters)["true"]

\* variables.disksSettings: diskAttachment at the key additional_disk
disksSettings(parameters) ==
    IF parameters.additional_disk \in DOMAIN diskAttachment(parameters)
    THEN diskAttachment(parameters)[parameters.additional_disk]
    ELSE TemplateError

\* variables.disksArray
disksArray(parameters) ==
    IF disksSettings(parameters) = TemplateError THEN TemplateError
    ELSE disksSettings(parameters).disks

\* storageProfile.dataDisks of the virtual machine resource
storageProfile(parameters) ==
    IF disksArray(parameters) = TemplateError THEN TemplateError
    ELSE [dataDisks |-> disksArray(parameters)]

InitArmTemplate ==
    /\ vm \in [parameters : [additional_disk   : {"true", "false", "", "True"},
                             disk_size         : {"10", "50", "1023"},
                             disk_file         : {"data.vhd", "disk2.vhd"},
                             storage_account   : {"acct1", "acct2"},
                             storage_container : {"vhds", "images"}]]
    /\ backend = << >>
    /\ pc = "start"
    /\ local = << >>
    /\ ret = NoReturn

\* the deployment evaluates the template on the parameters
DeployLinux ==
    /\ pc = "start"
    /\ ret' = storageProfile(vm.parameters)
    /\ pc' = "done"
    /\ UNCHANGED <<vm, backend, local>>

NextArmTemplate == DeployLinux

SpecArmTemplate == InitArmTemplate /\ [][NextArmTemplate]_vars

\* C29: in the Linux ARM template the data-disk list of the VM is empty when
\* additional_disk is not set ("false") and holds exactly one data disk,
\* of the size disk_size, when it is set ("true").
C29_DataDisksFollowAdditionalDisk ==
    pc = "done" =>
        /\ vm.parameters.additional_disk = "false" => ret.dataDisks = << >>
        /\ vm.parameters.additional_disk = "true" =>
              /\ Len(ret.dataDisks) = 1
              /\ ret.dataDisks[1].diskSizeGB = vm.parameters.disk_size

\* a deployment with the additional disk: one data disk of 50
C29_Witness ==
    /\ pc = "done"
    /\ vm.parameters.additional_disk = "true" /\ vm.parameters.disk_size = "50"
    /\ Len(ret.dataDisks) = 1 /\ ret.dataDisks[1].diskSizeGB = "50"

\* a deployment without it: no data disk
C29_WitnessNoDisk ==
    /\ pc = "done" /\ vm.parameters.additional_disk = "false"
    /\ ret.dataDisks = << >>


\* C31: with UseLinkedClones set the clone is taken from the template's
\* current snapshot, and its relocation spec carries the same resource pool,
\* host and datastore as the relocation spec built for a full clone of the
\* same request.
C31_LinkedCloneSameRelocation ==
    (vm.op = "cloneFromTemplate" /\ Occurs("Clone") /\ vm.UseLinkedClones) =>
        /\ local.cisp.Snapshot
        /\ local.cisp.Location.Pool = local.relocateSpec.Pool
        /\ local.cisp.Location.Host = local.relocateSpec.Host
        /\ local.cisp.Location.Datastore = local.relocateSpec.Datastore


\* C32: checkCustomSpecMutex is released on every path out of the critical
\* section of cloneFromTemplate and always before the clone is submitted: a
\* caller that is before Lock, at the clone submission or past the call does
\* not hold it.
C32_MutexReleasedOutsideCriticalSection ==
    \A p \in Callers :
        pc[p] \in {"start", "lock", "clone", "done"} => local.checkCustomSpecMutex # p

----------------------------------------------------------------------------
(* Specification SpecReconfigure: reconfigureVM on a cloned VM. backend     *)
(* holds the VM's devices as the server lists them; a device is a key, a   *)
(* kind and, for a disk, the file name of its backing, which the server    *)
(* chooses: the datastore and a number no disk of the VM has. A DiskFile   *)
(* that is not set is the empty list.                                      *)

MaxAddedDisks == 2    \* entries of vm.Disks handed to reconfigureVM

NoFile == << >>

Keys(devices) == {devices[i].Key : i \in 1..Len(devices)}

diffDisks_AllDevices(devList2, devList1) ==
    [i \in 1..Len(devList2) |-> devList2[i].FileName]

\* diffDisks: the file names of the devices of devList2 whose key is not in
\* devList1, in the order of devList2
diffDisks(devList2, devList1) ==
    LET added == SelectSeq(devList2, LAMBDA v : v.Key \notin Keys(devList1))
    IN  [i \in 1..Len(added) |-> added[i].FileName]

\* vmObj.AddDevice: the server appends the disk under a fresh key and names
\* its file
AddDevice(devices, datastore) ==
    LET key == 1 + Len(devices)
    IN  Append(devices, [Key |-> key, kind |-> "disk", FileName |-> <<datastore, key>>])

InitialDevices ==
    {<<[Key |-> 1, kind |-> "controller", FileName |-> NoFile]>>,
     <<[Key |-> 1, kind |-> "controller", FileName |-> NoFile],
       [Key |-> 2, kind |-> "disk", FileName |-> <<"ds1", 2>>]>>}

InitReconfigure ==
    /\ vm \in [datastore : {"", "ds1"},
               Disks : SeqsUpTo([Size : {10}, Datastore : {"", "ds2"},
                                 DiskFile : {NoFile}], MaxAddedDisks)]
    /\ backend \in [devices : InitialDevices]
    /\ pc = "reconfigureVM"
    /\ local = [index |-> 1, before |-> vm, lists |-> << >>, failedAt |-> ""]
    /\ ret = NoReturn

FailAt(step, err) ==
    /\ local' = [local EXCEPT !.failedAt = step]
    /\ pc' = "done"
    /\ ret' = err

\* GetDatacenter, and the draw of vm.datastore among the VM's datastores
\* when none is cached
ReconfigureFindDatastore ==
    /\ pc = "reconfigureVM"
    /\ \/ FailAt("GetDatacenter", ErrorObjectNotFound) /\ UNCHANGED vm
       \/ /\ vm.datastore = ""
          /\ FailAt("getDatastoreForVm", Fault("Error retrieving datastores used by vm"))
          /\ UNCHANGED vm
       \/ \E ds \in ChooseRandomString(<<"ds1">>) :
             /\ vm' = [vm EXCEPT !.datastore = IF @ = "" THEN ds ELSE @]
             /\ pc' = IF Len(vm.Disks) = 0 THEN "done" ELSE "addDisk"
             /\ ret' = IF Len(vm.Disks) = 0 THEN Nil ELSE ret
             /\ UNCHANGED local
    /\ UNCHANGED backend

\* one iteration of the loop over vm.Disks
ReconfigureAddDisk ==
    /\ pc = "addDisk"
    /\ LET index         == local.index
           disk          == vm.Disks[index]
           datastore     == IF disk.Datastore = "" THEN vm.datastore ELSE disk.Datastore
           devListBefore == backend.devices
           devices       == AddDevice(backend.devices, datastore)
           vmdkFilename  == diffDisks(devices, devListBefore)
       IN  \/ /\ \E step \in {"Device", "FindDiskController", "findDatastore", "AddDevice"} :
                    FailAt(step, Fault("Failed while creating Disks[index]"))
              /\ UNCHANGED <<vm, backend>>
           \/ /\ backend' = [backend EXCEPT !.devices = devices]
              /\ FailAt("DeviceAfter", Fault("Failed to get devices after creating"))
              /\ UNCHANGED vm
           \/ /\ backend' = [backend EXCEPT !.devices = devices]
              /\ vm' = [vm EXCEPT !.Disks[index].DiskFile = vmdkFilename[1]]
              /\ local' = [local EXCEPT
                              !.index = index + 1,
                              !.lists = Append(@, [before |-> devListBefore,
                                                   after  |-> devices])]
              /\ pc' = IF index = Len(vm.Disks) THEN "done" ELSE "addDisk"
              /\ ret' = IF index = Len(vm.Disks) THEN Nil ELSE ret

NextReconfigure == ReconfigureFindDatastore \/ ReconfigureAddDisk

SpecReconfigure == InitReconfigure /\ [][NextReconfigure]_vars

\* DiskFile of disk i is the file of a device listed after attachment i and
\* not before it
NamesNewDevice(i) ==
    \E d \in Range(local.lists[i].after) :
        /\ d.Key \notin Keys(local.lists[i].before)
        /\ d.kind = "disk"
        /\ d.FileName = vm.Disks[i].DiskFile

\* C33: after reconfigureVM succeeds every requested disk has been attached
\* in list order and Disks[i].DiskFile is the file name of a device present
\* after and absent before attachment i, so distinct disks have distinct
\* file names; when attachment k fails the disks before k stay attached with
\* their DiskFile set and the DiskFile of disk k and of later disks is
\* unchanged.
C33_DiskFilesNameNewDevices ==
    pc = "done" =>
        LET n == Len(vm.Disks)
            k == IF ret = Nil THEN n + 1 ELSE local.index
        IN  /\ ret = Nil => Len(local.lists) = n
            /\ \A i \in 1..(k-1) :
                  /\ NamesNewDevice(i)
                  /\ vm.Disks[i].DiskFile # NoFile
                  /\ \E d \in Range(backend.devices) : d.FileName = vm.Disks[i].DiskFile
            /\ \A i, j \in 1..(k-1) :
                  i < j => /\ vm.Disks[i].DiskFile # vm.Disks[j].DiskFile
                           /\ \E a, b \in 1..Len(backend.devices) :
                                 /\ a < b
                                 /\ backend.devices[a].FileName = vm.Disks[i].DiskFile
                                 /\ backend.devices[b].FileName = vm.Disks[j].DiskFile
            /\ \A i \in k..n : vm.Disks[i].DiskFile = local.before.Disks[i].DiskFile

\* two disks were added to a VM that had a disk: two new, distinct files
C33_Witness ==
    /\ pc = "done" /\ ret = Nil
    /\ Len(vm.Disks) = 2 /\ Len(backend.devices) = 4
    /\ vm.Disks[1].DiskFile # NoFile /\ vm.Disks[2].DiskFile # NoFile
    /\ vm.Disks[1].DiskFile # vm.Disks[2].DiskFile

\* the second attachment failed: the first disk keeps its file name
C33_WitnessFailed ==
    /\ pc = "done" /\ local.failedAt = "AddDevice" /\ local.index = 2
    /\ vm.Disks[1].DiskFile # NoFile /\ vm.Disks[2].DiskFile = NoFile

----------------------------------------------------------------------------
(* Specification SpecResourcePool: findResourcePoolByMOID. backend.depth    *)
(* gives for each pool of the inventory how many levels below a root       *)
(* Resources pool it lies; backend.failing is the level whose list query   *)
(* fails (0 when none does).                                               *)

RESOURCE_POOL_DEPTH == 8

MaxPoolDepth == 9    \* the deepest nesting of a pool in the inventory

PoolIds == {"resgroup-1", "resgroup-2"}

findResourcePoolListAtPath_StopsAtSeven(depth, failing, n) ==
    IF failing = n \/ n >= 8
    THEN [rpList |-> {}, err |-> Fault("list failed")]
    ELSE [rpList |-> {id \in DOMAIN depth : depth[id] = n}, err |-> Nil]

\* findResourcePoolListAtPath for the path "*/Resources" followed by n "/*":
\* the pools n levels below a root pool
findResourcePoolListAtPath(depth, failing, n) ==
    IF failing = n
    THEN [rpList |-> {}, err |-> Fault("list failed")]
    ELSE [rpList |-> {id \in DOMAIN depth : depth[id] = n}, err |-> Nil]

\* the loop of findResourcePoolByMOID from the list of level n+1 on; queries
\* counts the list queries made
RECURSIVE findResourcePoolFrom(_, _, _, _)
findResourcePoolFrom(depth, failing, moid, n) ==
    IF n >= RESOURCE_POOL_DEPTH
    THEN [Value |-> "", err |-> ErrorObjectNotFound, queries |-> n]
    ELSE IF moid \in findResourcePoolListAtPath(depth, failing, n + 1).rpList
         THEN [Value |-> moid, err |-> Nil, queries |-> n + 1]
         ELSE findResourcePoolFrom(depth, failing, moid, n + 1)

findResourcePoolByMOID(depth, failing, moid) == findResourcePoolFrom(depth, failing, moid, 0)

InitResourcePool ==
    /\ vm \in [Destination : [MOID : {"resgroup-1", "resgroup-3"}]]
    /\ backend \in [depth   : UNION {[S -> 1..MaxPoolDepth] : S \in SUBSET PoolIds},
                    failing : 0..RESOURCE_POOL_DEPTH]
    /\ pc = "start"
    /\ local = << >>
    /\ ret = NoReturn

FindResourcePoolByMOIDCall ==
    /\ pc = "start"
    /\ ret' = findResourcePoolByMOID(backend.depth, backend.failing, vm.Destination.MOID)
    /\ pc' = "done"
    /\ UNCHANGED <<vm, backend, local>>

NextResourcePool == FindResourcePoolByMOIDCall

SpecResourcePool == InitResourcePool /\ [][NextResourcePool]_vars

\* the level of the requested pool, 0 when the inventory has no such pool
RequestedDepth ==
    IF vm.Destination.MOID \in DOMAIN backend.depth
    THEN backend.depth[vm.Destination.MOID] ELSE 0

FoundRequested == ret.err = Nil /\ ret.Value = vm.Destination.MOID

C34_WitnessTooDeep ==
    /\ pc = "done" /\ RequestedDepth = 9 /\ ret.err = ErrorObjectNotFound

----------------------------------------------------------------------------
(* Specification SpecTreeFaults: searchTree on inventories whose objects    *)
(* may be deleted or fail to be retrieved                                  *)

MaxFaultObjs == 2    \* objects below the VM folder

RetrievalStatuses == {"ok", "deleted", "fault"}

FaultPaths ==
    {PathOfSegments(segs) : segs \in SeqsUpTo({<<"a">>, <<"v">>}, 2) \ {<< >>}}

InitTreeFaults ==
    /\ vm \in [Name : FaultPaths]
    /\ \E inv \in Inventories(MaxFaultObjs, {"Folder", "VirtualMachine"},
                             {<<"a">>, <<"v">>}),
          status \in [0..MaxFaultObjs -> RetrievalStatuses] :
          backend = [inv |-> [inv EXCEPT !.status = status]]
    /\ pc = "start"
    /\ local = << >>
    /\ ret = NoReturn

NextTreeFaults == SearchTreeCall

SpecTreeFaults == InitTreeFaults /\ [][NextTreeFaults]_vars

\* the inventory without its deleted children: each is an entity of a type
\* searchTree does not look at
WithoutDeleted(inv) ==
    [inv EXCEPT
        !.type   = [o \in DOMAIN inv.type |->
                       IF inv.status[o] = "deleted" THEN "Other" ELSE inv.type[o]],
        !.status = [o \in DOMAIN inv.status |->
                       IF o # 0 /\ inv.status[o] = "deleted" THEN "ok" ELSE inv.status[o]]]

\* the inventory with every failing retrieval succeeding
WithoutFaults(inv) ==
    [inv EXCEPT !.status = [o \in DOMAIN inv.status |->
                               IF inv.status[o] = "fault" THEN "ok" ELSE inv.status[o]]]

\* C35: during searchTree a child whose retrieval fails with the
\* object-deleted error is skipped and the walk goes on with the remaining
\* children, so the result is the one for the inventory without that child;
\* any other retrieval error aborts the search and is returned: the result
\* is that error unless no failing object was retrieved.
C35_DeletedSkippedOthersAbort ==
    pc = "done" =>
        /\ ret = searchTree(WithoutDeleted(backend.inv), 0, vm.Name)
        /\ \/ ret = RetrievalError("fault")
           \/ ret = searchTree(WithoutFaults(backend.inv), 0, vm.Name)
        /\ ret = RetrievalError("fault") =>
              \E o \in DOMAIN backend.inv.status : backend.inv.status[o] = "fault"
        /\ (ret = RetrievalError("deleted")) => backend.inv.status[0] = "deleted"

\* the first child is a deleted VM; the walk goes on and returns the
\* second child, the VM of the searched name
C35_Witness ==
    /\ pc = "done"
    /\ MaxFaultObjs >= 2
    /\ backend.inv.status = [o \in 0..MaxFaultObjs |-> IF o = 1 THEN "deleted" ELSE "ok"]
    /\ backend.inv.type[1] = "VirtualMachine" /\ backend.inv.type[2] = "VirtualMachine"
    /\ backend.inv.parent[2] = 0
    /\ ret = [kind |-> "vm", ref |-> 2]

\* the retrieval of a child fails otherwise: the search returns the error
C35_WitnessAbort ==
    /\ pc = "done"
    /\ backend.inv.status[0] = "ok" /\ backend.inv.status[1] = "fault"
    /\ backend.inv.type[1] = "VirtualMachine"
    /\ ret = RetrievalError("fault")


\* ---------------------------------------------------------------------------
\* reset under fair scheduling (util.go:1388-1430)
\* ---------------------------------------------------------------------------

\* the steps of reset run one after the other in one goroutine, each call of
\* the server answers, and property.Wait always delivers the first update with
\* the current value; the guest is not obliged to change its heartbeat, so
\* WaitUpdate, GuestHeartbeatChanges and the failures carry no fairness
FairHeartbeat ==
    /\ SpecHeartbeat
    /\ WF_vars(ResetFindVM)
    /\ WF_vars(ResetIsToolsRunning)
    /\ WF_vars(ResetSubmit)
    /\ WF_vars(ResetWait)
    /\ WF_vars(RestartFindVM)
    /\ WF_vars(RestartRebootGuest)
    /\ WF_vars(WaitFirstUpdate)
    /\ WF_vars(WaitTimeout)

\* the guest heartbeat eventually settles at green or yellow
HeartbeatSettles == <>[](backend.heartbeat \in {"green", "yellow"})

\* C36: every call to reset eventually returns in every execution where the
\* reset task completes and the guest heartbeat eventually settles at green
\* or yellow
C36_ResetReturns ==
    vm.op = "reset" => (HeartbeatSettles => <>(pc = "done"))


\* ---------------------------------------------------------------------------
\* the customization of the submitted clone spec (util.go:990-1021)
\* ---------------------------------------------------------------------------

\* static IP settings are configured on the handle
StaticIpConfigured ==
    vm.NetworkSetting.Ip # "" /\ vm.NetworkSetting.SubnetMask # ""

\* the customization the clone spec has to carry for the handle's settings
ExpectedCustomization ==
    IF StaticIpConfigured
    THEN [kind |-> "customSpec",
          NicSettingMap |-> <<[Ip |-> vm.NetworkSetting.Ip,
                               SubnetMask |-> vm.NetworkSetting.SubnetMask]>>]
    ELSE Nil

\* C37: the clone spec cloneFromTemplate submits carries the customization
\* spec patched with the static IP settings when both are configured, for a
\* linked clone as well as for a full clone, and no customization otherwise
C37_CloneCarriesCustomization ==
    (vm.op = "cloneFromTemplate" /\ Occurs("Clone")) =>
        local.cisp.Customization = ExpectedCustomization


-----------------------------------------------------------------------------
(* Specification SpecTemplateName: uploadTemplate and cloneFromTemplate called
   one after the other on the same VM handle (util.go:892-912, 1541-1552,
   1620) *)

MaxCalls == 3     \* calls made on one handle

TemplateDatastores == {"ds1", "ds2"}

\* the name the import gives the entity: EntityName, or the name in the OVF
\* when EntityName is empty
ImportedName(template) == IF template = << >> THEN <<"ovf">> ELSE template

\* vm is the handle; backend holds the configured template name, the usable
\* datastores of the clone calls and the names of the entities imported so
\* far; local.calls lists the calls made with the name each looked up
InitTemplateName ==
    /\ vm \in [Template : [Name : {<<"tmpl">>}, InstanceUuid : {""}],
               UseLocalTemplates : BOOLEAN,
               datastore : {""}]
    /\ backend \in [configured : {<<"tmpl">>},
                    usableDatastores : {<< >>, <<"ds1">>, <<"ds1", "ds2">>},
                    entities : {{}}]
    /\ pc = "idle"
    /\ local = [calls |-> << >>]
    /\ ret = NoReturn

CallRecord(op, ds, renamed, entity, lookup, err) ==
    [op |-> op, datastore |-> ds, renamed |-> renamed, entity |-> entity,
     lookup |-> lookup, err |-> err]

\* the name a call leaves on the handle: the suffix is appended to the name
\* the handle holds, by uploadTemplate (util.go:1547-1550) and by
\* cloneFromTemplate (util.go:906-908) alike
localTemplateName(v, selectedDatastore) ==
    IF v.UseLocalTemplates
    THEN createTemplateName(v.Template.Name, selectedDatastore)
    ELSE v.Template.Name

\* uploadTemplate: the name is rewritten first; the call fails before the
\* import, or imports the entity and looks it up by the handle's name
UploadTemplateCall ==
    /\ pc = "idle" /\ Len(local.calls) < MaxCalls
    /\ \E selectedDatastore \in TemplateDatastores, failsEarly \in BOOLEAN :
          LET template == IF vm.UseLocalTemplates
                          THEN localTemplateName(vm, selectedDatastore)
                          ELSE << >>
              v == [vm EXCEPT !.Template.Name =
                                 localTemplateName(vm, selectedDatastore),
                              !.datastore = selectedDatastore]
              filter == getTempSearchFilter(v.Template)
              found  == filter.Name \in backend.entities
                           \cup {ImportedName(template)}
          IN  /\ vm' = v
              /\ IF failsEarly
                 THEN /\ UNCHANGED backend
                      /\ ret' = Fault("error uploading the ovf template")
                      /\ local' = [local EXCEPT !.calls = Append(@,
                            CallRecord("uploadTemplate", selectedDatastore,
                                       vm.UseLocalTemplates, << >>, << >>, ret'))]
                 ELSE /\ backend' = [backend EXCEPT !.entities =
                                        @ \cup {ImportedName(template)}]
                      /\ ret' = IF found THEN Nil
                                ELSE Fault("error getting the uploaded VM")
                      /\ local' = [local EXCEPT !.calls = Append(@,
                            CallRecord("uploadTemplate", selectedDatastore,
                                       vm.UseLocalTemplates,
                                       ImportedName(template), filter.Name, ret'))]
    /\ UNCHANGED pc

\* cloneFromTemplate up to the lookup of the template: the datastore is drawn
\* and resolved, the name rewritten, the template looked up
CloneFromTemplateCall ==
    /\ pc = "idle" /\ Len(local.calls) < MaxCalls
    /\ \E ds \in ChooseRandomString(backend.usableDatastores),
          datastoreFound \in BOOLEAN :
          IF ds # "" /\ ~datastoreFound
          THEN /\ vm' = [vm EXCEPT !.datastore = ds]
               /\ ret' = ErrorObjectNotFound
               /\ local' = [local EXCEPT !.calls = Append(@,
                     CallRecord("cloneFromTemplate", ds, FALSE, << >>, << >>, ret'))]
          ELSE LET v == [vm EXCEPT !.datastore = ds,
                                   !.Template.Name = localTemplateName(vm, ds)]
                   filter == getTempSearchFilter(v.Template)
               IN  /\ vm' = v
                   /\ ret' = IF filter.Name \in backend.entities THEN Nil
                             ELSE Fault("error retrieving template")
                   /\ local' = [local EXCEPT !.calls = Append(@,
                         CallRecord("cloneFromTemplate", ds, vm.UseLocalTemplates,
                                    << >>, filter.Name, ret'))]
    /\ UNCHANGED <<backend, pc>>

NextTemplateName ==
    \/ UploadTemplateCall
    \/ CloneFromTemplateCall

SpecTemplateName == InitTemplateName /\ [][NextTemplateName]_vars

\* a call has rewritten the template name of the handle
TemplateRenamed == \E i \in 1..Len(local.calls) : local.calls[i].renamed

\* C38: with UseLocalTemplates set, after any sequence of uploadTemplate and
\* cloneFromTemplate calls on the same handle the template name used for
\* lookup is the configured name followed by exactly one datastore suffix,
\* and a clone after an upload to the same datastore looks up the entity the
\* upload imported
C38_OneDatastoreSuffix ==
    (vm.UseLocalTemplates /\ TemplateRenamed) =>
        /\ vm.Template.Name = createTemplateName(backend.configured, vm.datastore)
        /\ \A i, j \in 1..Len(local.calls) :
              (/\ i < j
               /\ local.calls[i].op = "uploadTemplate"
               /\ local.calls[i].entity # << >>
               /\ local.calls[j].op = "cloneFromTemplate"
               /\ local.calls[j].renamed
               /\ local.calls[j].datastore = local.calls[i].datastore)
                  => local.calls[j].lookup = local.calls[i].entity


-----------------------------------------------------------------------------
(* Specification SpecAddReconcile: disks added by reconfigureVM and then
   reconciled by resizeAndDeleteVols against the same requested disks
   (util.go:1177-1179, 828-840) *)

MaxDiskSize == 4     \* the largest requested Size

\* vDisk.CapacityInKB = int64(disk.Size)
newDiskCapacityInKB(disk) == disk.Size

\* the file the server names for the index-th added disk
AddedDiskFile(index) == IF index = 1 THEN "added-1.vmdk" ELSE "added-2.vmdk"

\* vm.Disks are the requested disks; backend.devices the devices of the VM;
\* local.index is the disk reconfigureVM adds next
InitAddReconcile ==
    /\ vm \in [Disks : SeqsUpTo([Size : 0..MaxDiskSize, DiskFile : {""}],
                                MaxAddedDisks) \ {<< >>}]
    /\ backend = [devices |-> << >>]
    /\ pc = "addDisk"
    /\ local = [index |-> 1]
    /\ ret = NoReturn

\* one iteration of the loop of reconfigureVM: the disk is created with its
\* capacity, added, and its file name kept in vm.Disks[index].DiskFile
AddDiskWithCapacity ==
    /\ pc = "addDisk"
    /\ LET index == local.index
           vDisk == [type |-> "VirtualDisk",
                     Backing |-> [kind |-> "file", FileName |-> AddedDiskFile(index)],
                     CapacityInKB |-> newDiskCapacityInKB(vm.Disks[index])]
       IN  /\ backend' = [backend EXCEPT !.devices = Append(@, vDisk)]
           /\ vm' = [vm EXCEPT !.Disks[index].DiskFile = AddedDiskFile(index)]
           /\ local' = [local EXCEPT !.index = index + 1]
           /\ pc' = IF index = Len(vm.Disks) THEN "reconcile" ELSE "addDisk"
    /\ UNCHANGED ret

\* resizeAndDeleteVols on the devices of the VM with the requested disks
ReconcileAddedDisks ==
    /\ pc = "reconcile"
    /\ ret' = resizeAndDeleteVols(backend.devices, vm.Disks)
    /\ pc' = "done"
    /\ UNCHANGED <<vm, backend, local>>

NextAddReconcile == AddDiskWithCapacity \/ ReconcileAddedDisks

SpecAddReconcile == InitAddReconcile /\ [][NextAddReconcile]_vars

\* C39: a disk added with Size S and then reconciled against a requested
\* disk with the same backing file name and the same Size S produces neither
\* a capacity edit nor the shrink error: every device's change is nil
C39_AddedDiskReconcilesUnchanged ==
    pc = "done" =>
        ret = [kind |-> "ok", specs |-> [i \in 1..Len(backend.devices) |-> Nil]]


-----------------------------------------------------------------------------
(* Specification SpecListPath: the path getVmsInFolder reports for a VM,
   split again by splitPathToList (util.go:2065-2136, 502-529) *)

MaxChain == 3       \* names on the way to a VM, the VM's name included

MaxNameLen == 2     \* characters of a name

\* the names of folders and VMs after url.QueryUnescape: not empty, and of
\* any characters
EntityNames == SeqsUpTo(PathChars, MaxNameLen) \ {<< >>}

\* vm.names are the names of the folders from the VM folder down and of the
\* VM; local.path is the path listed for the VM
InitListPath ==
    /\ vm \in [names : SeqsUpTo(EntityNames, MaxChain) \ {<< >>}]
    /\ backend = << >>
    /\ pc = "list"
    /\ local = [path |-> << >>]
    /\ ret = NoReturn

\* getVmsInFolder down the chain of folders to the VM
GetVmsInFolderCall ==
    /\ pc = "list"
    /\ local' = [local EXCEPT !.path = PathOfSegments(vm.names)]
    /\ pc' = "split"
    /\ UNCHANGED <<vm, backend, ret>>

\* searchTree splits the path it is given
SplitListedPath ==
    /\ pc = "split"
    /\ ret' = splitPathToList(local.path)
    /\ pc' = "done"
    /\ UNCHANGED <<vm, backend, local>>

NextListPath == GetVmsInFolderCall \/ SplitListedPath

SpecListPath == InitListPath /\ [][NextListPath]_vars

\* C40: for every chain of folder names and every VM name, the path
\* getVmsInFolder reports for the VM is split by splitPathToList into exactly
\* the original sequence of names
C40_ListedPathSplitsToNames ==
    pc = "done" => ret = vm.names

====
